---- MODULE Spec2Model ----
(***************************************************************************)
(* Model of the checkout / shipping / order-storage core of                *)
(* markur/jesus-walks-napa.                                                *)
(*                                                                         *)
(*   - ShippingService.validateAddress, getShippingRates                   *)
(*                                       (src/server/services/shipping.ts) *)
(*   - module initialisation and the shipping endpoints                    *)
(*                                        (src/server/routes.ts)           *)
(*   - POST /api/create-payment-intent   (src/server/routes.ts)            *)
(*   - Checkout / CheckoutForm           (src/unnamed/part_002)            *)
(*   - MemStorage / DatabaseStorage product and order operations           *)
(*                                        (src/unnamed/part_001,           *)
(*                                         src/server/storage.ts)          *)
(*                                                                         *)
(* Money in major units (dollars) is written in thousandths: the integer   *)
(* n stands for the JavaScript number literal n/1000.                      *)
(***************************************************************************)
EXTENDS Integers, Sequences, FiniteSets, TLC

VARIABLES
    \* ---- ShippingService.validateAddress ----
    vaCall,        \* the last validateAddress invocation: input and outcomes of the external calls
    vaResult,      \* what that invocation produced, and the external calls it made
    \* ---- POST /api/shipping/validate-address and /api/shipping/calculate-rates ----
    shipReq,       \* the last request to a shipping endpoint: body and outcomes of the external calls
    shipRes,       \* the HTTP response to it, and the external calls made while handling it
    \* ---- the major -> minor unit conversion of the payment route ----
    rdAmount,      \* a request's amount, in thousandths of a dollar
    rdCents,       \* Math.round(amount * 100) for it, once computed
    \* ---- module initialisation of the server ----
    env,           \* process.env: the value of each secret, NullStr when it is not set
    boot,          \* how far the server has come: "start", "shipping", "routes", "listening", "failed"
    served,        \* requests served so far
    \* ---- POST /api/create-payment-intent and the payment processor ----
    piReqs,        \* the requests issued so far, in order of issue, each with its answer
    stripeCalls,   \* amounts (cents) submitted to stripe.paymentIntents.create, in order
    intents,       \* amounts (cents) of the payment intents created; intent i has client_secret i
    \* ---- the checkout page ----
    cart,          \* useCart().state: number of items and total (thousandths)
    page,          \* "away", "checkout" (Checkout mounted) or "confirmation"
    clientSecret,  \* Checkout's clientSecret state; 0 is the empty string
    stripeReady,   \* useStripe() and useElements() return objects
    shippingAddress, \* CheckoutForm state: <<>> is null, <<a>> an address
    shippingRates, \* CheckoutForm state: the quoted rates
    selectedRate,  \* CheckoutForm state: <<>> is null, <<r>> a rate
    ratesReq,      \* the calculate-rates request: "none", "pending", "done" or "failed"
    isProcessing,  \* CheckoutForm state
    paymentError,  \* CheckoutForm state
    formKind,      \* which CheckoutForm the page renders: "shipping" (part_002) or
                   \* "recaptcha" (client/src/pages/checkout.tsx)
    captcha,       \* the grecaptcha.execute call of handleSubmit: "idle" or "pending"
    confirm,       \* the stripe.confirmPayment call of handleSubmit: "none", "pending",
                   \* "confirmed", "error" or "throw"
    lastConfirm,   \* the last stripe.confirmPayment call, <<>> if none: the client secret
                   \* Elements held, and the subtotal and rate the form showed
    \* ---- the storage (MemStorage or DatabaseStorage) ----
    backend,       \* "mem" or "db": which class the exported storage object is
    orders,        \* the orders map / table: id -> Order
    orderItems,    \* the orderItems map / table: id -> OrderItem
    products,      \* the products map / table: id -> Product
    currentIds,    \* next id per collection (currentIds / the serial sequences)
    clock,         \* the time new Date() / defaultNow() returns
    lastCall,      \* the last storage call and how it ended
    storageCalls,  \* number of storage calls so far
    attempt,       \* the order being recorded by the caller: the order row, then its items
    recordedFor,   \* order id -> the payment confirmation its createOrder call was made for
    \* ---- users, events, registrations, waitlist and their routes ----
    users,         \* the users map / table: id -> User
    events,        \* the events map / table: id -> Event
    registrations, \* the registrations map / table: id -> Registration
    waitlist,      \* the waitlist map / table: id -> Waitlist
    acctIds,       \* next id of each of these collections
    hreqs,         \* POST /api/users and /api/registrations requests, in order of arrival:
                   \* body, where the handler stands, and its answer
    adminReq       \* the last request to an admin route: its session, how far it came, its
                   \* answer, the storage calls made for it and whether it changed the store

shipVars == <<vaCall, vaResult, shipReq, shipRes>>
roundVars == <<rdAmount, rdCents>>
bootVars == <<env, boot, served>>
serverVars == <<piReqs, stripeCalls, intents>>
formVars == <<stripeReady, shippingAddress, shippingRates, selectedRate, ratesReq,
              isProcessing, paymentError, formKind, captcha, confirm, lastConfirm>>
pageVars == <<cart, page, clientSecret>>
storeVars == <<backend, orders, orderItems, products, currentIds, clock, lastCall, storageCalls,
              attempt, recordedFor>>
acctVars == <<users, events, registrations, waitlist, acctIds, hreqs, adminReq>>
otherVars == <<shipVars, roundVars, bootVars, serverVars, pageVars, formVars>>
vars == <<vaCall, vaResult, shipReq, shipRes, rdAmount, rdCents, env, boot, served,
          piReqs, stripeCalls, intents,
          cart, page, clientSecret, stripeReady, shippingAddress, shippingRates,
          selectedRate, ratesReq, isProcessing, paymentError, formKind, captcha, confirm,
          lastConfirm,
          backend, orders, orderItems, products, currentIds, clock, lastCall, storageCalls,
          attempt, recordedFor,
          users, events, registrations, waitlist, acctIds, hreqs, adminReq>>

(***************************************************************************)
(* Bounds                                                                  *)
(***************************************************************************)
MaxCandidates == 2      \* most candidates the geocoder returns
MaxAmountMilli == 1200  \* largest amount of the conversion runs, in thousandths
MaxRequests == 2        \* create-payment-intent requests per run
MaxStorageCalls == 4    \* storage calls per run
MaxHandlers == 3        \* POST /api/users and /api/registrations requests per run
MaxEvents == 1          \* events created per run

(***************************************************************************)
(* ShippingService.validateAddress                                         *)
(***************************************************************************)
NullStr == "<null>"     \* a null / undefined string-valued property

\* ShippingAddress values that passed shippingAddressSchema.parse (routes.ts:406)
Addresses ==
    { [firstName |-> "A", lastName |-> "B", address1 |-> "1 Main St", address2 |-> NullStr,
       city |-> "napa", state |-> "ca", postalCode |-> "94559", country |-> "US",
       phone |-> "7075551234"],
      [firstName |-> "C", lastName |-> "D", address1 |-> "2 oak ave", address2 |-> "apt 4",
       city |-> "Sonoma", state |-> "CA", postalCode |-> "95476", country |-> "us",
       phone |-> "707-555-9999"] }

\* messages of the errors the external calls raise ("" = an Error without a message)
ErrMessages == {"", "ECONNRESET", "Unable to verify address."}

\* the EasyPost address object as the code reads it after verify() has resolved
CarrierAddresses ==
    { [street1 |-> "1 MAIN ST", street2 |-> NullStr, city |-> "NAPA", state |-> "CA",
       zip |-> "94559-1234", country |-> "US", phone |-> "7075551234",
       hasDetails |-> FALSE, details |-> <<>>],
      [street1 |-> "2 OAK AVE", street2 |-> "APT 4", city |-> "SONOMA", state |-> "CA",
       zip |-> "95476-0001", country |-> "US", phone |-> "7075559999",
       hasDetails |-> TRUE, details |-> <<"Missing secondary information">>],
      [street1 |-> "2 OAK AVE", street2 |-> "", city |-> "SONOMA", state |-> "CA",
       zip |-> "95476-0001", country |-> "US", phone |-> "7075559999",
       hasDetails |-> TRUE, details |-> <<>>] }

\* outcomes of geocoder.geocode: a list of n candidates, or a raised error
GeocodeOutcomes ==
    [kind : {"ok"}, n : 0..MaxCandidates] \cup [kind : {"throw"}, message : ErrMessages]

\* outcomes of easypost.Address.create
CreateOutcomes ==
    [kind : {"ok"}, obj : CarrierAddresses] \cup [kind : {"throw"}, message : ErrMessages]

\* outcomes of verifiedAddress.verify()
VerifyOutcomes ==
    [kind : {"ok"}] \cup [kind : {"throw"}, message : ErrMessages]

\* a || b on strings: b when a is null, undefined or ""
OrElse(a, b) == IF a = NullStr \/ a = "" THEN b ELSE a

\* a normalizedAddress that keeps the city the user typed
NormalizedAddress_InputCity(address, verifiedAddress) ==
    [firstName |-> address.firstName,
     lastName |-> address.lastName,
     address1 |-> verifiedAddress.street1,
     address2 |-> OrElse(verifiedAddress.street2, ""),
     city |-> address.city,
     state |-> verifiedAddress.state,
     postalCode |-> verifiedAddress.zip,
     country |-> verifiedAddress.country,
     phone |-> verifiedAddress.phone]

\* shipping.ts:64-74
NormalizedAddress(address, verifiedAddress) ==
    [firstName |-> address.firstName,
     lastName |-> address.lastName,
     address1 |-> verifiedAddress.street1,
     address2 |-> OrElse(verifiedAddress.street2, ""),
     city |-> verifiedAddress.city,
     state |-> verifiedAddress.state,
     postalCode |-> verifiedAddress.zip,
     country |-> verifiedAddress.country,
     phone |-> verifiedAddress.phone]

\* shipping.ts:80  verifiedAddress.verifications?.delivery?.details || []
DeliveryMessages(verifiedAddress) ==
    IF verifiedAddress.hasDetails THEN verifiedAddress.details ELSE <<>>

\* shipping.ts:42-48: the early return when the geocoder found nothing
NotFoundResult(address) ==
    [kind |-> "return",
     value |-> [address |-> address, isValid |-> FALSE,
                messages |-> <<"Address could not be found">>],
     calls |-> <<"geocode">>]

\* the zero-candidates test left out
GeocodeFoundNothing_Never(geo) == FALSE

\* shipping.ts:42  if (!geocodeResult.length)
GeocodeFoundNothing(geo) == geo.n = 0

\* shipping.ts:32-81: the try block; "calls" lists the external calls made
ValidateAddressTry(address, geo, create, verify) ==
    IF geo.kind = "throw"
    THEN [kind |-> "throw", message |-> geo.message, calls |-> <<"geocode">>]
    ELSE IF GeocodeFoundNothing(geo)
    THEN NotFoundResult(address)
    ELSE IF create.kind = "throw"
    THEN [kind |-> "throw", message |-> create.message,
          calls |-> <<"geocode", "Address.create">>]
    ELSE IF verify.kind = "throw"
    THEN [kind |-> "throw", message |-> verify.message,
          calls |-> <<"geocode", "Address.create", "verify">>]
    ELSE [kind |-> "return",
          value |-> [address |-> address, isValid |-> TRUE,
                     normalizedAddress |-> NormalizedAddress(address, create.obj),
                     messages |-> DeliveryMessages(create.obj)],
          calls |-> <<"geocode", "Address.create", "verify">>]

\* a catch block that lets the error escape
ValidateAddressCatch_Rethrow(address, thrown) == thrown

\* shipping.ts:82-88: the catch block
ValidateAddressCatch(address, thrown) ==
    [kind |-> "return",
     value |-> [address |-> address, isValid |-> FALSE,
                messages |-> <<OrElse(thrown.message, "Address validation failed")>>],
     calls |-> thrown.calls]

\* shipping.ts:31-89
ValidateAddress(address, geo, create, verify) ==
    LET body == ValidateAddressTry(address, geo, create, verify)
    IN  IF body.kind = "throw" THEN ValidateAddressCatch(address, body) ELSE body

NoCall == [address |-> NullStr]
NoResult == [kind |-> "none", calls |-> <<>>]

InitShipping ==
    /\ vaCall = NoCall
    /\ vaResult = NoResult
    /\ shipReq = [endpoint |-> "none"]
    /\ shipRes = [status |-> 0, calls |-> <<>>]

\* one invocation of shippingService.validateAddress(address)
ValidateAddressCall ==
    /\ \E address \in Addresses, geo \in GeocodeOutcomes,
          create \in CreateOutcomes, verify \in VerifyOutcomes :
          /\ vaCall' = [address |-> address, geo |-> geo, create |-> create, verify |-> verify]
          /\ vaResult' = ValidateAddress(address, geo, create, verify)
    /\ UNCHANGED <<acctVars, shipReq, shipRes, roundVars, bootVars, serverVars, pageVars, formVars, storeVars>>

NextShipping == ValidateAddressCall

(***************************************************************************)
(* ShippingService.getShippingRates                                        *)
(***************************************************************************)
\* the value NaN of a JavaScript number
NaN == -(2^30)

Digits == <<"0", "1", "2", "3", "4", "5", "6", "7", "8", "9">>
IsDigit(c) == \E d \in 1..10 : Digits[d] = c
DigitValue(c) == (CHOOSE d \in 1..10 : Digits[d] = c) - 1

\* the longest prefix of the characters s that consists of digits
RECURSIVE DigitPrefix(_)
DigitPrefix(s) ==
    IF s = <<>> \/ ~IsDigit(Head(s)) THEN <<>> ELSE <<Head(s)>> \o DigitPrefix(Tail(s))

\* the number a string of digits denotes
RECURSIVE DigitsValue(_)
DigitsValue(ds) ==
    IF ds = <<>> THEN 0 ELSE 10 * DigitsValue(SubSeq(ds, 1, Len(ds) - 1)) + DigitValue(ds[Len(ds)])

\* the thousandths a string of at most three fraction digits denotes
FractionMilli(ds) ==
    DigitsValue(ds) * (IF Len(ds) = 0 THEN 0 ELSE IF Len(ds) = 1 THEN 100
                       ELSE IF Len(ds) = 2 THEN 10 ELSE 1)

\* shipping.ts:134  parseFloat(rate.rate): the longest numeric prefix of the
\* string (a sequence of characters), NaN when there is none; in thousandths
ParseFloat(s) ==
    LET whole == DigitPrefix(s)
        rest == SubSeq(s, Len(whole) + 1, Len(s))
        frac == IF rest # <<>> /\ Head(rest) = "." THEN DigitPrefix(Tail(rest)) ELSE <<>>
    IN  IF whole = <<>> /\ frac = <<>> THEN NaN
        ELSE 1000 * DigitsValue(whole) + FractionMilli(frac)

\* the rates of an EasyPost shipment: rate is a string, delivery_days a number or
\* null (<<>>)
CarrierRates ==
    { [carrier |-> "USPS", service |-> "Priority", rate |-> <<"7", ".", "2", "5">>,
       delivery_days |-> <<3>>],
      [carrier |-> "UPS", service |-> "Ground", rate |-> <<"1", "2", ".", "0", "0">>,
       delivery_days |-> <<>>],
      [carrier |-> "USPS", service |-> "First", rate |-> <<"4", ".", "5">>,
       delivery_days |-> <<0>>] }

\* the lists shipment.rates can be
ShipmentRateLists ==
    {<<>>} \cup {<<r>> : r \in CarrierRates}
           \cup {p \in CarrierRates \X CarrierRates : p[1] # p[2]}

\* outcomes of easypost.Shipment.create
ShipmentOutcomes ==
    [kind : {"ok"}, rates : ShipmentRateLists] \cup [kind : {"throw"}, message : ErrMessages]

\* parcelDetails of a request body: absent, or an object whose numbers may be
\* missing or not positive (weight in ounces, sides in inches; 0 = missing)
NoParcel == [has |-> FALSE, weight |-> 0, length |-> 0, width |-> 0, height |-> 0]
Parcel(w, l) == [has |-> TRUE, weight |-> w, length |-> l, width |-> 8, height |-> 4]
ParcelDetails == {NoParcel, Parcel(16, 10), Parcel(0, 10), Parcel(-5, 10)}

\* a quote that does not say tracking is available
ShippingRateOf_Untracked(rate) ==
    [carrier |-> rate.carrier, service |-> rate.service, rate |-> ParseFloat(rate.rate),
     estimatedDays |-> IF rate.delivery_days = <<>> THEN 0 ELSE rate.delivery_days[1],
     trackingAvailable |-> FALSE]

\* shipping.ts:131-137: one element of the mapped list
ShippingRateOf(rate) ==
    [carrier |-> rate.carrier, service |-> rate.service, rate |-> ParseFloat(rate.rate),
     estimatedDays |-> IF rate.delivery_days = <<>> THEN 0 ELSE rate.delivery_days[1],
     trackingAvailable |-> TRUE]

\* shipping.ts:101-137: the try block of getShippingRates; reading a property of
\* an absent parcelDetails raises a TypeError before Shipment.create is called
GetShippingRatesTry(fromAddress, toAddress, parcelDetails, shipment) ==
    IF ~parcelDetails.has
    THEN [kind |-> "throw", message |-> "Cannot read properties of undefined (reading 'weight')",
          calls |-> <<>>]
    ELSE IF shipment.kind = "throw"
    THEN [kind |-> "throw", message |-> shipment.message, calls |-> <<"Shipment.create">>]
    ELSE [kind |-> "return",
          value |-> [i \in 1..Len(shipment.rates) |-> ShippingRateOf(shipment.rates[i])],
          calls |-> <<"Shipment.create">>]

\* a catch block that answers with the rates it has: none
GetShippingRatesCatch_EmptyList(thrown) ==
    [kind |-> "return", value |-> <<>>, calls |-> thrown.calls]

\* shipping.ts:138-140: the catch block wraps and rethrows
GetShippingRatesCatch(thrown) ==
    [kind |-> "throw", message |-> "Failed to get shipping rates: " \o thrown.message,
     calls |-> thrown.calls]

\* shipping.ts:91-141
GetShippingRates(fromAddress, toAddress, parcelDetails, shipment) ==
    LET body == GetShippingRatesTry(fromAddress, toAddress, parcelDetails, shipment)
    IN  IF body.kind = "throw" THEN GetShippingRatesCatch(body) ELSE body

(***************************************************************************)
(* The shipping endpoints                                                  *)
(***************************************************************************)
\* address objects of request bodies that violate shippingAddressSchema:
\* a postal code of 4 characters, no phone, an empty first name
BadAddresses ==
    { [firstName |-> "A", lastName |-> "B", address1 |-> "1 Main St", address2 |-> NullStr,
       city |-> "napa", state |-> "ca", postalCode |-> "9455", country |-> "US",
       phone |-> "7075551234"],
      [firstName |-> "A", lastName |-> "B", address1 |-> "1 Main St", address2 |-> "apt 4",
       city |-> "napa", state |-> "ca", postalCode |-> "94559", country |-> "US",
       phone |-> NullStr],
      [firstName |-> "", lastName |-> "D", address1 |-> "2 oak ave", address2 |-> NullStr,
       city |-> "Sonoma", state |-> "CA", postalCode |-> "95476", country |-> "us",
       phone |-> "707-555-9999"] }

\* the addresses a request body can carry
PostedAddresses == Addresses \cup BadAddresses

\* z.string().min(n): a string of at least n characters
StringMin(v, n) == v # NullStr /\ Len(v) >= n

\* part_000:150-160: shippingAddressSchema.parse(a) does not throw
SchemaAccepts(a) ==
    /\ StringMin(a.firstName, 1)
    /\ StringMin(a.lastName, 1)
    /\ StringMin(a.address1, 1)
    /\ StringMin(a.city, 1)
    /\ StringMin(a.state, 1)
    /\ StringMin(a.postalCode, 5)
    /\ StringMin(a.country, 1)
    /\ StringMin(a.phone, 10)

\* routes.ts:411, 434
InvalidAddressData(calls) ==
    [status |-> 400, message |-> "Invalid address data", calls |-> calls]

\* routes.ts:404-415: the handler of POST /api/shipping/validate-address
ValidateAddressRoute(body, geo, create, verify) ==
    IF ~SchemaAccepts(body) THEN InvalidAddressData(<<>>)
    ELSE LET r == ValidateAddress(body, geo, create, verify)
         IN  IF r.kind = "throw"
             THEN [status |-> 500, message |-> "Failed to validate address", calls |-> r.calls]
             ELSE [status |-> 200, json |-> r.value, calls |-> r.calls]

\* routes.ts:436
RatesFailedResponse(thrown) ==
    [status |-> 500, message |-> "Failed to calculate shipping rates", calls |-> thrown.calls]

\* routes.ts:417-438: the handler of POST /api/shipping/calculate-rates
CalculateRatesRoute(fromAddress, toAddress, parcelDetails, shipment) ==
    IF ~SchemaAccepts(fromAddress) \/ ~SchemaAccepts(toAddress) THEN InvalidAddressData(<<>>)
    ELSE LET r == GetShippingRates(fromAddress, toAddress, parcelDetails, shipment)
         IN  IF r.kind = "throw" THEN RatesFailedResponse(r)
             ELSE [status |-> 200, json |-> r.value, calls |-> r.calls]

\* a client posts to /api/shipping/validate-address (the handlers keep no
\* state between requests: one request per run)
PostValidateAddress ==
    /\ shipReq.endpoint = "none"
    /\ \E body \in PostedAddresses, geo \in GeocodeOutcomes,
          create \in CreateOutcomes, verify \in VerifyOutcomes :
          /\ shipReq' = [endpoint |-> "validate-address", body |-> body, geo |-> geo,
                         create |-> create, verify |-> verify]
          /\ shipRes' = ValidateAddressRoute(body, geo, create, verify)
    /\ UNCHANGED <<acctVars, vaCall, vaResult, roundVars, bootVars, serverVars, pageVars, formVars, storeVars>>

\* a client posts to /api/shipping/calculate-rates
PostCalculateRates ==
    /\ shipReq.endpoint = "none"
    /\ \E fromAddress \in PostedAddresses, toAddress \in PostedAddresses,
          parcelDetails \in ParcelDetails, shipment \in ShipmentOutcomes :
          /\ shipReq' = [endpoint |-> "calculate-rates", fromAddress |-> fromAddress,
                         toAddress |-> toAddress, parcelDetails |-> parcelDetails,
                         shipment |-> shipment]
          /\ shipRes' = CalculateRatesRoute(fromAddress, toAddress, parcelDetails, shipment)
    /\ UNCHANGED <<acctVars, vaCall, vaResult, roundVars, bootVars, serverVars, pageVars, formVars, storeVars>>

NextShipRoutes ==
    \/ PostValidateAddress
    \/ PostCalculateRates

(***************************************************************************)
(* Module initialisation: shipping.ts and routes.ts                        *)
(***************************************************************************)
\* the secrets the server reads from the environment
SecretKeys == {"STRIPE_SECRET_KEY", "GOOGLE_MAPS_API_KEY", "EASYPOST_API_KEY"}

\* values a variable of the environment can have: not set, empty, a key
EnvValues == {NullStr, "", "test_key", "live_key"}

\* !process.env.KEY: the variable is not set or is the empty string
EnvMissing(key) == env[key] = NullStr \/ env[key] = ""

InitBoot ==
    /\ env \in [SecretKeys -> EnvValues]
    /\ boot = "start"
    /\ served = 0

\* shipping.ts:5-14, 144: the module body of services/shipping, evaluated first
\* because routes.ts imports it; the geocoder is constructed with whatever
\* GOOGLE_MAPS_API_KEY holds
LoadShippingModule ==
    /\ boot = "start"
    /\ boot' = IF EnvMissing("EASYPOST_API_KEY") THEN "failed" ELSE "shipping"
    /\ UNCHANGED <<acctVars, env, served, shipVars, roundVars, serverVars, pageVars, formVars, storeVars>>

\* routes.ts:181-187: the module body of routes
LoadRoutesModule ==
    /\ boot = "shipping"
    /\ boot' = IF EnvMissing("STRIPE_SECRET_KEY") THEN "failed" ELSE "routes"
    /\ UNCHANGED <<acctVars, env, served, shipVars, roundVars, serverVars, pageVars, formVars, storeVars>>

\* routes.ts:203: registerRoutes(app) returns the server, which listens
RegisterRoutes ==
    /\ boot = "routes"
    /\ boot' = "listening"
    /\ UNCHANGED <<acctVars, env, served, shipVars, roundVars, serverVars, pageVars, formVars, storeVars>>

\* a request is served
ServeRequest ==
    /\ boot = "listening"
    /\ served < MaxRequests
    /\ served' = served + 1
    /\ UNCHANGED <<acctVars, env, boot, shipVars, roundVars, serverVars, pageVars, formVars, storeVars>>

NextBoot ==
    \/ LoadShippingModule
    \/ LoadRoutesModule
    \/ RegisterRoutes
    \/ ServeRequest

(***************************************************************************)
(* JavaScript numbers.  An amount is an IEEE-754 double: m * 2^(-e) with a *)
(* mantissa m of at most 53 bits.  Mantissas and the exact products do not *)
(* fit a machine integer of TLC, so they are kept as little-endian    *)
(* sequences of 15-bit limbs.                                              *)
(***************************************************************************)
LimbBits == 15
LimbBase == 2^LimbBits
MantissaBits == 53      \* precision of a JavaScript number
CentsPerUnit == 100     \* routes.ts:385  amount * 100

RECURSIVE IntBitLen(_)
IntBitLen(n) == IF n = 0 THEN 0 ELSE 1 + IntBitLen(n \div 2)

RECURSIVE BigFromInt(_)
BigFromInt(n) == IF n = 0 THEN <<>> ELSE <<n % LimbBase>> \o BigFromInt(n \div LimbBase)

RECURSIVE BigToInt(_)
BigToInt(x) == IF x = <<>> THEN 0 ELSE Head(x) + LimbBase * BigToInt(Tail(x))

RECURSIVE BigBitLen(_)
BigBitLen(x) ==
    IF x = <<>> THEN 0
    ELSE LET hi == BigBitLen(Tail(x))
         IN  IF hi > 0 THEN hi + LimbBits ELSE IntBitLen(Head(x))

\* x * k + c, for 0 <= c < k <= LimbBase
RECURSIVE BigMulAdd(_, _, _)
BigMulAdd(x, k, c) ==
    IF x = <<>> THEN (IF c = 0 THEN <<>> ELSE <<c>>)
    ELSE LET t == Head(x) * k + c
         IN  <<t % LimbBase>> \o BigMulAdd(Tail(x), k, t \div LimbBase)

\* quotient and remainder of x by d, for 0 < d <= LimbBase
RECURSIVE BigDivRem(_, _)
BigDivRem(x, d) ==
    IF x = <<>> THEN [q |-> <<>>, r |-> 0]
    ELSE LET hi == BigDivRem(Tail(x), d)
             cur == hi.r * LimbBase + Head(x)
         IN  [q |-> <<cur \div d>> \o hi.q, r |-> cur % d]

RECURSIVE BigInc(_)
BigInc(x) ==
    IF x = <<>> THEN <<1>>
    ELSE IF Head(x) + 1 < LimbBase THEN <<Head(x) + 1>> \o Tail(x)
    ELSE <<0>> \o BigInc(Tail(x))

BigIsOdd(x) == x # <<>> /\ Head(x) % 2 = 1

Zeros(n) == [i \in 1..n |-> 0]

\* x * 2^s
BigShl(x, s) == Zeros(s \div LimbBits) \o BigMulAdd(x, 2^(s % LimbBits), 0)

\* floor(x / 2^s), and whether the division was exact
BigShr(x, s) ==
    LET drop == s \div LimbBits
        low == SubSeq(x, 1, IF drop < Len(x) THEN drop ELSE Len(x))
        high == SubSeq(x, drop + 1, Len(x))
        d == BigDivRem(high, 2^(s % LimbBits))
    IN  [q |-> d.q, exact |-> d.r = 0 /\ \A i \in 1..Len(low) : low[i] = 0]

\* round-half-to-even of the quotient q with remainder r of a division by d
RoundHalfEven(q, r, d) ==
    IF 2 * r > d \/ (2 * r = d /\ BigIsOdd(q)) THEN BigInc(q) ELSE q

\* the double nearest to n/1000 (n > 0): what JSON.parse makes of the decimal
\* literal in the request body (routes.ts:378)
ToDouble(n) ==
    LET s1 == MantissaBits + 10 - IntBitLen(n)
        d1 == BigDivRem(BigShl(BigFromInt(n), s1), 1000)
        s == IF BigBitLen(d1.q) > MantissaBits THEN s1 - 1 ELSE s1
        d == IF s = s1 THEN d1 ELSE BigDivRem(BigShl(BigFromInt(n), s), 1000)
    IN  [m |-> RoundHalfEven(d.q, d.r, 1000), e |-> s]

\* the double x * k: the exact product rounded to 53 bits, ties to even
DoubleTimes(x, k) ==
    LET p == BigMulAdd(x.m, k, 0)
        drop == IF BigBitLen(p) > MantissaBits THEN BigBitLen(p) - MantissaBits ELSE 0
        d == BigDivRem(p, 2^drop)
    IN  [m |-> RoundHalfEven(d.q, d.r, 2^drop), e |-> x.e - drop]

\* Math.round of the double x, or of -x when negative is TRUE: floor(v + 0.5)
MathRound(x, negative) ==
    LET twice == BigShr(x.m, x.e - 1)          \* floor(2 |v|)
        y == BigToInt(twice.q)
    IN  IF ~negative THEN (y + 1) \div 2
        ELSE IF twice.exact THEN -(y \div 2)
        ELSE -((y + 1) \div 2)

\* routes.ts:385  Math.round(amount * 100), amount = n/1000
ToCents(n) ==
    IF n = 0 THEN 0
    ELSE LET a == ToDouble(IF n < 0 THEN -n ELSE n)
         IN  MathRound(DoubleTimes(a, CentsPerUnit), n < 0)

\* the decimal amount n/1000 rounded to the nearest cent, halves up
NearestCent(n) == (n + 5) \div 10

InitRounding ==
    /\ rdAmount = 0
    /\ rdCents = 0

\* every positive amount up to the bound is a possible request
InitRoundingInputs ==
    /\ rdAmount \in 1..MaxAmountMilli
    /\ rdCents = -1

\* the conversion the route applies before calling the processor
ConvertAmount ==
    /\ rdCents = -1
    /\ rdCents' = ToCents(rdAmount)
    /\ UNCHANGED <<acctVars, rdAmount, bootVars, shipVars, serverVars, pageVars, formVars, storeVars>>

NextRounding == ConvertAmount

(***************************************************************************)
(* POST /api/create-payment-intent                                         *)
(***************************************************************************)
\* req.body.amount: absent, or the number milli/1000
MissingAmount == [has |-> FALSE, milli |-> 0]
Amount(n) == [has |-> TRUE, milli |-> n]

\* bodies an HTTP client may post: no amount, zero, negative, positive
PostedAmounts == {MissingAmount, Amount(0), Amount(-5000), Amount(4), Amount(1005), Amount(57250)}

\* outcomes of stripe.paymentIntents.create
StripeOutcomes == [kind : {"ok"}] \cup [kind : {"throw"}, message : {"card_declined", "api_connection_error"}]

\* a guard that only rejects a missing or zero amount
InvalidAmount_FalsyOnly(amount) == ~amount.has \/ amount.milli = 0

\* routes.ts:380  !amount || amount <= 0
InvalidAmount(amount) == ~amount.has \/ amount.milli = 0 \/ amount.milli <= 0

NewRequest(from, amount) ==
    [from |-> from, amount |-> amount, stage |-> "sent", status |-> 0, secret |-> 0,
     message |-> NullStr, details |-> NullStr]

\* routes.ts:381
InvalidAmountResponse(r) ==
    [r EXCEPT !.stage = "answered", !.status = 400, !.message = "Invalid amount"]

\* routes.ts:393
ClientSecretResponse(r, secret) ==
    [r EXCEPT !.stage = "answered", !.status = 200, !.secret = secret]

\* routes.ts:394-400
StripeErrorResponse(r, error) ==
    [r EXCEPT !.stage = "answered", !.status = 500,
              !.message = "Error creating payment intent", !.details = error.message]

InitServer ==
    /\ piReqs = <<>>
    /\ stripeCalls = <<>>
    /\ intents = <<>>

\* routes.ts:376-401: the handler answers request i
HandleCreatePaymentIntent(i) ==
    /\ piReqs[i].stage = "sent"
    /\ LET r == piReqs[i] IN
       IF InvalidAmount(r.amount)
       THEN /\ piReqs' = [piReqs EXCEPT ![i] = InvalidAmountResponse(r)]
            /\ UNCHANGED <<stripeCalls, intents>>
       ELSE /\ stripeCalls' = Append(stripeCalls, ToCents(r.amount.milli))
            /\ \E out \in StripeOutcomes :
                  IF out.kind = "ok"
                  THEN /\ intents' = Append(intents, ToCents(r.amount.milli))
                       /\ piReqs' = [piReqs EXCEPT ![i] = ClientSecretResponse(r, Len(intents) + 1)]
                  ELSE /\ piReqs' = [piReqs EXCEPT ![i] = StripeErrorResponse(r, out)]
                       /\ UNCHANGED intents
    /\ UNCHANGED <<acctVars, shipVars, roundVars, bootVars, pageVars, formVars, storeVars>>

\* any HTTP client posts a body to the route
PostCreatePaymentIntent ==
    /\ Len(piReqs) < MaxRequests
    /\ \E amount \in PostedAmounts : piReqs' = Append(piReqs, NewRequest("api", amount))
    /\ UNCHANGED <<acctVars, stripeCalls, intents, shipVars, roundVars, bootVars, pageVars, formVars, storeVars>>

NextPayment ==
    \/ PostCreatePaymentIntent
    \/ \E i \in 1..Len(piReqs) : HandleCreatePaymentIntent(i)

(***************************************************************************)
(* The checkout page: Checkout and CheckoutForm                            *)
(***************************************************************************)
EmptyCart == [items |-> 0, total |-> 0]

\* carts the shopper can have put together: number of items and their total
CartStates == {[items |-> 1, total |-> 50000], [items |-> 2, total |-> 70000]}

\* a ShippingRate as the calculate-rates endpoint returns it
UspsPriority == [carrier |-> "USPS", service |-> "Priority", rate |-> 7250,
                 estimatedDays |-> 3, trackingAvailable |-> TRUE]
UpsGround == [carrier |-> "UPS", service |-> "Ground", rate |-> 12000,
              estimatedDays |-> 0, trackingAvailable |-> TRUE]

\* answers of POST /api/shipping/calculate-rates
RateLists == {<<>>, <<UspsPriority>>, <<UspsPriority, UpsGround>>}

InitCheckout ==
    /\ cart = EmptyCart
    /\ page = "away"
    /\ clientSecret = 0
    /\ stripeReady = FALSE
    /\ shippingAddress = <<>>
    /\ shippingRates = <<>>
    /\ selectedRate = <<>>
    /\ ratesReq = "none"
    /\ isProcessing = FALSE
    /\ paymentError = NullStr
    /\ formKind \in {"shipping", "recaptcha"}
    /\ captcha = "idle"
    /\ confirm = "none"
    /\ lastConfirm = <<>>

\* part_002:298-307: the effect of Checkout, run with the cart c
CheckoutEffect(c) ==
    IF c.items > 0
    THEN piReqs' = Append(piReqs, NewRequest("checkout", Amount(c.total)))
    ELSE UNCHANGED piReqs

\* the shopper opens /checkout: Checkout mounts and its effect runs
OpenCheckout ==
    /\ page = "away"
    /\ Len(piReqs) < MaxRequests
    /\ page' = "checkout"
    /\ clientSecret' = 0
    /\ CheckoutEffect(cart)
    /\ UNCHANGED <<acctVars, cart, stripeCalls, intents, shipVars, roundVars, bootVars, formVars, storeVars>>

\* the cart changes (use-cart); on the checkout page the effect runs again
CartChanged ==
    /\ page \in {"away", "checkout"}
    /\ Len(piReqs) < MaxRequests
    /\ \E c \in CartStates :
          /\ c # cart
          /\ cart' = c
          /\ IF page = "checkout" THEN CheckoutEffect(c) ELSE UNCHANGED piReqs
    /\ UNCHANGED <<acctVars, page, clientSecret, stripeCalls, intents, shipVars, roundVars, bootVars, formVars, storeVars>>

\* part_002:301-305: the answer to request i reaches the page
PaymentIntentResponse(i) ==
    /\ piReqs[i].from = "checkout"
    /\ piReqs[i].stage = "answered"
    /\ piReqs' = [piReqs EXCEPT ![i].stage = "delivered"]
    /\ IF piReqs[i].status = 200 /\ page = "checkout"
       THEN clientSecret' = piReqs[i].secret
       ELSE UNCHANGED clientSecret
    /\ UNCHANGED <<acctVars, cart, page, stripeCalls, intents, shipVars, roundVars, bootVars, formVars, storeVars>>

\* part_002:337-345: CheckoutForm is rendered inside Elements
FormRendered == page = "checkout" /\ cart.items > 0 /\ clientSecret # 0

\* part_002:40-41: Stripe.js has loaded
StripeLoaded ==
    /\ FormRendered
    /\ ~stripeReady
    /\ stripeReady' = TRUE
    /\ UNCHANGED <<acctVars, formKind, captcha, confirm, storeVars, serverVars, pageVars, shipVars, roundVars, bootVars, shippingAddress, shippingRates,
                   selectedRate, ratesReq, isProcessing, paymentError, lastConfirm>>

\* part_002:56-79: handleAddressValidated up to the await
HandleAddressValidated ==
    /\ formKind = "shipping"
    /\ FormRendered
    /\ shippingAddress = <<>>
    /\ ratesReq # "pending"
    /\ \E a \in Addresses : shippingAddress' = <<a>>
    /\ ratesReq' = "pending"
    /\ UNCHANGED <<acctVars, formKind, captcha, confirm, storeVars, serverVars, pageVars, shipVars, roundVars, bootVars, stripeReady, shippingRates,
                   selectedRate, isProcessing, paymentError, lastConfirm>>

\* a default that takes the last quote
DefaultRate_Last(rates) == rates[Len(rates)]

\* part_002:85  rates[0], the rate selected by default
DefaultRate(rates) == rates[1]

\* part_002:81-86: the quoted rates arrive
RatesArrive ==
    /\ ratesReq = "pending"
    /\ \E rates \in RateLists :
          /\ shippingRates' = rates
          /\ IF Len(rates) > 0 THEN selectedRate' = <<DefaultRate(rates)>>
             ELSE UNCHANGED selectedRate
    /\ ratesReq' = "done"
    /\ UNCHANGED <<acctVars, formKind, captcha, confirm, storeVars, serverVars, pageVars, shipVars, roundVars, bootVars, stripeReady, shippingAddress,
                   isProcessing, paymentError, lastConfirm>>

\* part_002:87-93: the calculate-rates request failed
RatesFail ==
    /\ ratesReq = "pending"
    /\ ratesReq' = "failed"
    /\ UNCHANGED <<acctVars, formKind, captcha, confirm, storeVars, serverVars, pageVars, shipVars, roundVars, bootVars, stripeReady, shippingAddress,
                   shippingRates, selectedRate, isProcessing, paymentError, lastConfirm>>

\* part_002:172-178: the shopper clicks a rate
SelectRate ==
    /\ FormRendered
    /\ shippingAddress # <<>>
    /\ \E i \in 1..Len(shippingRates) :
          /\ selectedRate # <<shippingRates[i]>>
          /\ selectedRate' = <<shippingRates[i]>>
    /\ UNCHANGED <<acctVars, formKind, captcha, confirm, storeVars, serverVars, pageVars, shipVars, roundVars, bootVars, stripeReady, shippingAddress,
                   shippingRates, ratesReq, isProcessing, paymentError, lastConfirm>>

\* part_002:270-274: the Pay button can be pressed
CanSubmit ==
    formKind = "shipping" /\ FormRendered /\ shippingAddress # <<>> /\ ~isProcessing /\ stripeReady

\* part_002:101: the guard of handleSubmit
SubmitGuard == stripeReady /\ shippingAddress # <<>> /\ selectedRate # <<>>

\* part_002:100-132: handleSubmit up to the await of stripe.confirmPayment, which
\* confirms the intent of the client secret Elements was given
HandleSubmit ==
    /\ CanSubmit
    /\ IF SubmitGuard
       THEN /\ isProcessing' = TRUE
            /\ paymentError' = NullStr
            /\ confirm' = "pending"
            /\ lastConfirm' = <<[secret |-> clientSecret, subtotal |-> cart.total,
                                 rate |-> selectedRate[1].rate]>>
       ELSE UNCHANGED <<isProcessing, paymentError, confirm, lastConfirm>>
    /\ UNCHANGED <<acctVars, formKind, captcha, storeVars, serverVars, pageVars, shipVars, roundVars,
                   bootVars, stripeReady, shippingAddress, shippingRates, selectedRate, ratesReq>>

\* outcomes of stripe.confirmPayment: resolved without an error, resolved with
\* an error, rejected
ConfirmOutcomes == {"confirmed", "error", "throw"}

\* a handler that empties the cart whatever confirmPayment answered
CartAfterConfirm_Always(out, c) == EmptyCart

\* part_002:134-138, checkout.tsx:105-113: clearCart() is reached only when
\* confirmPayment resolved without an error
CartAfterConfirm(out, c) == IF out = "confirmed" THEN EmptyCart ELSE c

\* a handler that resets isProcessing on the success path only
ProcessingAfterSubmit_SuccessOnly(out) == out # "confirmed"

\* part_002:152-154, checkout.tsx:121-123: finally { setIsProcessing(false) }
ProcessingAfterSubmit(out) == FALSE

\* part_002:134-154: stripe.confirmPayment settles
ConfirmPaymentSettles ==
    /\ formKind = "shipping"
    /\ confirm = "pending"
    /\ \E out \in ConfirmOutcomes :
          /\ confirm' = out
          /\ cart' = CartAfterConfirm(out, cart)
          /\ isProcessing' = ProcessingAfterSubmit(out)
          /\ IF out = "confirmed"
             THEN page' = "confirmation" /\ UNCHANGED paymentError
             ELSE paymentError' = "Your card was declined." /\ UNCHANGED page
    /\ UNCHANGED <<acctVars, formKind, captcha, storeVars, serverVars, clientSecret, shipVars, roundVars,
                   bootVars, stripeReady, shippingAddress, shippingRates, selectedRate, ratesReq,
                   lastConfirm>>

\* checkout.tsx:202: the Pay button of the reCAPTCHA form can be pressed
CanSubmitCaptcha == formKind = "recaptcha" /\ FormRendered /\ ~isProcessing /\ stripeReady

\* checkout.tsx:64-76: handleSubmit up to the await of grecaptcha.execute
HandleSubmitCaptcha ==
    /\ CanSubmitCaptcha
    /\ isProcessing' = TRUE
    /\ captcha' = "pending"
    /\ UNCHANGED <<acctVars, formKind, confirm, lastConfirm, storeVars, serverVars, pageVars, shipVars,
                   roundVars, bootVars, stripeReady, shippingAddress, shippingRates, selectedRate,
                   ratesReq, paymentError>>

\* outcomes of grecaptcha.execute: a token, an empty token, a raised error
\* (also the TypeError when the script has not loaded)
CaptchaOutcomes == {"token", "no token", "throw"}

\* checkout.tsx:73-87, 115-123: grecaptcha.execute settles; with a token the
\* handler goes on to stripe.confirmPayment, otherwise it returns through finally
RecaptchaSettles ==
    /\ captcha = "pending"
    /\ captcha' = "idle"
    /\ \E out \in CaptchaOutcomes :
          IF out = "token"
          THEN /\ confirm' = "pending"
               /\ lastConfirm' = <<[secret |-> clientSecret, subtotal |-> cart.total, rate |-> 0]>>
               /\ UNCHANGED isProcessing
          ELSE /\ isProcessing' = ProcessingAfterSubmit(out)
               /\ UNCHANGED <<confirm, lastConfirm>>
    /\ UNCHANGED <<acctVars, formKind, storeVars, serverVars, pageVars, shipVars, roundVars, bootVars,
                   stripeReady, shippingAddress, shippingRates, selectedRate, ratesReq,
                   paymentError>>

\* checkout.tsx:87-123: stripe.confirmPayment settles
CaptchaConfirmSettles ==
    /\ formKind = "recaptcha"
    /\ confirm = "pending"
    /\ \E out \in ConfirmOutcomes :
          /\ confirm' = out
          /\ cart' = CartAfterConfirm(out, cart)
          /\ isProcessing' = ProcessingAfterSubmit(out)
          /\ page' = IF out = "confirmed" THEN "confirmation" ELSE page
    /\ UNCHANGED <<acctVars, formKind, captcha, storeVars, serverVars, clientSecret, shipVars, roundVars,
                   bootVars, stripeReady, shippingAddress, shippingRates, selectedRate, ratesReq,
                   paymentError, lastConfirm>>

NextCheckout ==
    \/ OpenCheckout
    \/ CartChanged
    \/ \E i \in 1..Len(piReqs) : HandleCreatePaymentIntent(i)
    \/ \E i \in 1..Len(piReqs) : PaymentIntentResponse(i)
    \/ StripeLoaded
    \/ HandleAddressValidated
    \/ RatesArrive
    \/ RatesFail
    \/ SelectRate
    \/ HandleSubmit
    \/ ConfirmPaymentSettles
    \/ HandleSubmitCaptcha
    \/ RecaptchaSettles
    \/ CaptchaConfirmSettles

(***************************************************************************)
(* The storage: order operations of MemStorage and DatabaseStorage         *)
(***************************************************************************)
Statuses == {"pending", "paid", "shipped", "delivered", "cancelled", "refunded"}

\* InsertOrder values a caller passes to createOrder
InsertOrders ==
    [userId : {1}, status : {"pending", "paid"}, total : {57250}, shippingCost : {7250}]

\* numbers of line items an order is recorded with
LineItemCounts == {1, 2, 3}

\* payment confirmations (payment-intent ids) an order is recorded for
ConfirmationIds == {"pi_1", "pi_2"}

NoAttempt == [status |-> "none", confirmation |-> NullStr, orderId |-> 0, want |-> 0, written |-> 0]
NoStorageCall == [op |-> "none", outcome |-> "none"]

InitStorage ==
    /\ backend \in {"mem", "db"}
    /\ orders = <<>>
    /\ orderItems = <<>>
    /\ products = <<>>
    /\ currentIds = [products |-> 1, orders |-> 1, orderItems |-> 1]
    /\ clock = 0
    /\ lastCall = NoStorageCall
    /\ storageCalls = 0
    /\ attempt = NoAttempt
    /\ recordedFor = <<>>

\* Map.set(id, row) / a row inserted under the primary key id
MapSet(map, id, row) == (id :> row) @@ map

\* time passes
Tick ==
    /\ clock < storageCalls
    /\ clock' = clock + 1
    /\ UNCHANGED <<acctVars, backend, orders, orderItems, products, currentIds, lastCall, storageCalls,
                   attempt, recordedFor, shipVars, roundVars, bootVars, serverVars, pageVars, formVars>>

\* an allocation that hands out the same id again
NextId_Stuck(id) == id

\* part_001:97, 117, 128, 145, 177, 211, 244: currentIds.x++ leaves id + 1
NextId(id) == id + 1

\* storage.ts:296, 314: an insert the database rejects (constraint, connection)
\* throws and writes no row; Map.set of MemStorage cannot fail
DbInsertFails ==
    /\ backend = "db"
    /\ UNCHANGED currentIds

\* part_001:210-221 and storage.ts:295-298: the row createOrder stores
NewOrder(order, id) ==
    [id |-> id, userId |-> order.userId, status |-> order.status, total |-> order.total,
     shippingCost |-> order.shippingCost, createdAt |-> clock, updatedAt |-> clock]

\* part_001:210-221, storage.ts:295-298: createOrder, called to record an order
\* with n line items for the payment confirmation pc
CreateOrder ==
    /\ attempt.status # "writing"
    /\ storageCalls < MaxStorageCalls
    /\ storageCalls' = storageCalls + 1
    /\ \E order \in InsertOrders, pc \in ConfirmationIds, n \in LineItemCounts :
          \/ /\ orders' = MapSet(orders, currentIds.orders, NewOrder(order, currentIds.orders))
             /\ currentIds' = [currentIds EXCEPT !.orders = NextId(@)]
             /\ lastCall' = [op |-> "createOrder", outcome |-> "returned"]
             /\ attempt' = [status |-> "writing", confirmation |-> pc,
                            orderId |-> currentIds.orders, want |-> n, written |-> 0]
             /\ recordedFor' = MapSet(recordedFor, currentIds.orders, pc)
          \/ /\ DbInsertFails
             /\ lastCall' = [op |-> "createOrder", outcome |-> "threw"]
             /\ attempt' = [status |-> "failed", confirmation |-> pc,
                            orderId |-> 0, want |-> n, written |-> 0]
             /\ UNCHANGED <<orders, recordedFor>>
    /\ UNCHANGED <<acctVars, backend, orderItems, products, clock,
                   shipVars, roundVars, bootVars, serverVars, pageVars, formVars>>

\* OrderItem values: a line of two units of one product at its price of the moment
InsertOrderItems(orderId) ==
    [orderId : {orderId}, productId : {1}, quantity : {2}, price : {25000}]

\* part_001:243-251, storage.ts:313-316: the row createOrderItem stores
NewOrderItem(item, id) ==
    [id |-> id, orderId |-> item.orderId, productId |-> item.productId,
     quantity |-> item.quantity, price |-> item.price]

\* part_000:68: order_items.product_id references products.id; the database
\* rejects an item of a product it does not hold, the Map of MemStorage takes it
ProductKeyHolds(item) == backend = "db" => item.productId \in DOMAIN products

\* part_001:243-251, storage.ts:313-316: createOrderItem, called for the next
\* line item of the order being recorded
CreateOrderItem ==
    /\ attempt.status = "writing"
    /\ storageCalls < MaxStorageCalls
    /\ storageCalls' = storageCalls + 1
    /\ \E item \in InsertOrderItems(attempt.orderId) :
          \/ /\ ProductKeyHolds(item)
             /\ orderItems' = MapSet(orderItems, currentIds.orderItems,
                                     NewOrderItem(item, currentIds.orderItems))
             /\ currentIds' = [currentIds EXCEPT !.orderItems = NextId(@)]
             /\ lastCall' = [op |-> "createOrderItem", outcome |-> "returned"]
             /\ attempt' = [attempt EXCEPT !.written = @ + 1,
                               !.status = IF attempt.written + 1 = attempt.want
                                          THEN "done" ELSE "writing"]
          \/ /\ DbInsertFails
             /\ lastCall' = [op |-> "createOrderItem", outcome |-> "threw"]
             /\ attempt' = [attempt EXCEPT !.status = "failed"]
             /\ UNCHANGED orderItems
    /\ UNCHANGED <<acctVars, backend, orders, products, clock, recordedFor,
                   shipVars, roundVars, bootVars, serverVars, pageVars, formVars>>

\* an update that stamps both timestamps
MemUpdatedOrder_Restamped(order, status) ==
    [order EXCEPT !.status = status, !.createdAt = clock, !.updatedAt = clock]

\* part_001:228-232: MemStorage writes the status and stamps updatedAt
MemUpdatedOrder(order, status) == [order EXCEPT !.status = status, !.updatedAt = clock]

\* storage.ts:301-305: DatabaseStorage sets the status column only
DbUpdatedOrder(order, status) == [order EXCEPT !.status = status]

\* the row updateOrderStatus stores, by implementation
UpdatedOrderIn(b, order, status) ==
    IF b = "mem" THEN MemUpdatedOrder(order, status) ELSE DbUpdatedOrder(order, status)

\* part_001:225-227, 189-191: MemStorage throws "Order not found" / "Product
\* not found"; storage.ts:300-307, 277-284: DatabaseStorage returns the first
\* row of an empty result, undefined
NotFoundOutcome(b) == IF b = "mem" THEN "threw" ELSE "undefined"

\* part_001:223-235, storage.ts:300-307: updateOrderStatus(id, status)
UpdateOrderStatus ==
    /\ storageCalls < MaxStorageCalls
    /\ storageCalls' = storageCalls + 1
    /\ \E id \in 1..currentIds.orders, status \in Statuses :
          IF id \in DOMAIN orders
          THEN /\ orders' = MapSet(orders, id, UpdatedOrderIn(backend, orders[id], status))
               /\ lastCall' = [op |-> "updateOrderStatus", outcome |-> "returned"]
          ELSE /\ UNCHANGED orders
               /\ lastCall' = [op |-> "updateOrderStatus", outcome |-> NotFoundOutcome(backend)]
    /\ UNCHANGED <<acctVars, backend, orderItems, products, currentIds, clock, attempt, recordedFor,
                   shipVars, roundVars, bootVars, serverVars, pageVars, formVars>>

\* InsertProduct values a caller passes to createProduct: the stock column is
\* an integer (part_000:47)
InsertProducts == [name : {"Mug"}, price : {30000}, stock : {5, -2}]

\* quantities a caller passes to updateProductStock
StockQuantities == {3, -1}

\* part_001:176-185, storage.ts:272-275: the row createProduct stores
NewProduct(product, id) ==
    [id |-> id, name |-> product.name, price |-> product.price, stock |-> product.stock,
     createdAt |-> clock]

\* part_001:176-185, storage.ts:272-275: createProduct(product)
CreateProduct ==
    /\ storageCalls < MaxStorageCalls
    /\ storageCalls' = storageCalls + 1
    /\ \E product \in InsertProducts :
          \/ /\ products' = MapSet(products, currentIds.products,
                                   NewProduct(product, currentIds.products))
             /\ currentIds' = [currentIds EXCEPT !.products = NextId(@)]
             /\ lastCall' = [op |-> "createProduct", outcome |-> "returned"]
          \/ /\ DbInsertFails
             /\ lastCall' = [op |-> "createProduct", outcome |-> "threw"]
             /\ UNCHANGED products
    /\ UNCHANGED <<acctVars, backend, orders, orderItems, clock, attempt, recordedFor,
                   shipVars, roundVars, bootVars, serverVars, pageVars, formVars>>

\* part_001:192-195, storage.ts:280: the product with its stock replaced
UpdatedProduct(product, quantity) == [product EXCEPT !.stock = quantity]

\* part_001:187-198, storage.ts:277-284: updateProductStock(id, quantity)
UpdateProductStock ==
    /\ storageCalls < MaxStorageCalls
    /\ storageCalls' = storageCalls + 1
    /\ \E id \in 1..currentIds.products, quantity \in StockQuantities :
          IF id \in DOMAIN products
          THEN /\ products' = MapSet(products, id, UpdatedProduct(products[id], quantity))
               /\ lastCall' = [op |-> "updateProductStock", outcome |-> "returned"]
          ELSE /\ UNCHANGED products
               /\ lastCall' = [op |-> "updateProductStock", outcome |-> NotFoundOutcome(backend)]
    /\ UNCHANGED <<acctVars, backend, orders, orderItems, currentIds, clock, attempt, recordedFor,
                   shipVars, roundVars, bootVars, serverVars, pageVars, formVars>>

\* an order's items read with the price their product has now
GetOrderItems_CurrentPrice(orderId) ==
    { IF orderItems[i].productId \in DOMAIN products
      THEN [orderItems[i] EXCEPT !.price = products[orderItems[i].productId].price]
      ELSE orderItems[i] : i \in {j \in DOMAIN orderItems : orderItems[j].orderId = orderId} }

\* part_001:237-241, storage.ts:309-311: getOrderItems(orderId)
GetOrderItems(orderId) ==
    { orderItems[i] : i \in {j \in DOMAIN orderItems : orderItems[j].orderId = orderId} }

NextStorage ==
    \/ Tick
    \/ CreateProduct
    \/ UpdateProductStock
    \/ CreateOrder
    \/ CreateOrderItem
    \/ UpdateOrderStatus

(***************************************************************************)
(* Users, events, registrations, waitlist: the storage and the routes      *)
(***************************************************************************)
\* InsertUser values of request bodies that insertUserSchema accepts
InsertUsers ==
    {[username |-> "ann", email |-> "a@x.org"], [username |-> "ann", email |-> "b@x.org"],
     [username |-> "bob", email |-> "a@x.org"]}

\* a body insertUserSchema.parse rejects
BadUser == [username |-> NullStr, email |-> NullStr]

\* capacities of the events created
Capacities == {1, 2}

\* InsertRegistration values of request bodies: for event 1, or for an event
\* that does not exist
InsertRegistrations == [eventId : {1, MaxEvents + 1}, userId : {1}]

\* addresses posted to the waitlist
WaitlistEmails == {"a@x.org", "b@x.org"}

NoAdminRequest ==
    [route |-> "none", sid |-> 0, stage |-> "none", status |-> 0, calls |-> <<>>,
     changed |-> FALSE]

InitAccounts ==
    /\ users = <<>>
    /\ events = <<>>
    /\ registrations = <<>>
    /\ waitlist = <<>>
    /\ acctIds = [users |-> 1, events |-> 1, registrations |-> 1, waitlist |-> 1]
    /\ hreqs = <<>>
    /\ adminReq = NoAdminRequest

\* part_001:96-106: the user createUser stores
NewUser(insertUser, id) ==
    [id |-> id, username |-> insertUser.username, email |-> insertUser.email,
     isAdmin |-> FALSE]

\* part_001:116-121: the event createEvent stores
NewEvent(capacity, id) == [id |-> id, capacity |-> capacity]

\* part_001:127-136: the registration createRegistration stores
NewRegistration(registration, id) ==
    [id |-> id, eventId |-> registration.eventId, userId |-> registration.userId]

\* part_001:144-153: the entry addToWaitlist stores
NewWaitlist(email, id) == [id |-> id, email |-> email]

\* a lookup that never finds a user
UserWith_Nobody(field, value) == {}

\* part_001:84-94, storage.ts:206-214: the users whose username / email is value
UserWith(field, value) == {id \in DOMAIN users : users[id][field] = value}

\* part_001:138-142, storage.ts:245-247: getEventRegistrations(eventId)
GetEventRegistrations(eventId) ==
    {id \in DOMAIN registrations : registrations[id].eventId = eventId}

\* part_000:7-9: username and email are unique columns; the database rejects
\* an insert that repeats one, the Map of MemStorage takes it
UserKeysHold(insertUser) ==
    backend = "db" =>
        UserWith("username", insertUser.username) = {} /\ UserWith("email", insertUser.email) = {}

\* part_000:27-28: registrations.user_id and event_id reference users and
\* events; the database rejects a registration of a user it does not hold
RegistrationKeysHold(registration) ==
    backend = "db" =>
        registration.userId \in DOMAIN users /\ registration.eventId \in DOMAIN events

\* part_000:35: waitlist.email is a unique column
WaitlistKeyHolds(email) ==
    backend = "db" => \A id \in DOMAIN waitlist : waitlist[id].email # email

\* part_001:96-106, storage.ts:216-219: createUser(insertUser)
CreateUser ==
    /\ storageCalls < MaxStorageCalls
    /\ storageCalls' = storageCalls + 1
    /\ \E insertUser \in InsertUsers :
          IF UserKeysHold(insertUser)
          THEN /\ users' = MapSet(users, acctIds.users, NewUser(insertUser, acctIds.users))
               /\ acctIds' = [acctIds EXCEPT !.users = NextId(@)]
               /\ lastCall' = [op |-> "createUser", outcome |-> "returned"]
          ELSE /\ lastCall' = [op |-> "createUser", outcome |-> "threw"]
               /\ UNCHANGED <<users, acctIds>>
    /\ UNCHANGED <<events, registrations, waitlist, hreqs, adminReq, otherVars, backend, orders,
                   orderItems, products, currentIds, clock, attempt, recordedFor>>

\* part_001:116-121, storage.ts:230-233: createEvent(event)
CreateEvent ==
    /\ storageCalls < MaxStorageCalls
    /\ storageCalls' = storageCalls + 1
    /\ \E capacity \in Capacities :
          events' = MapSet(events, acctIds.events, NewEvent(capacity, acctIds.events))
    /\ acctIds' = [acctIds EXCEPT !.events = NextId(@)]
    /\ lastCall' = [op |-> "createEvent", outcome |-> "returned"]
    /\ UNCHANGED <<users, registrations, waitlist, hreqs, adminReq, otherVars, backend, orders,
                   orderItems, products, currentIds, clock, attempt, recordedFor>>

\* part_001:127-136, storage.ts:240-243: createRegistration(registration)
CreateRegistration ==
    /\ storageCalls < MaxStorageCalls
    /\ storageCalls' = storageCalls + 1
    /\ \E registration \in InsertRegistrations :
          IF RegistrationKeysHold(registration)
          THEN /\ registrations' = MapSet(registrations, acctIds.registrations,
                                          NewRegistration(registration, acctIds.registrations))
               /\ acctIds' = [acctIds EXCEPT !.registrations = NextId(@)]
               /\ lastCall' = [op |-> "createRegistration", outcome |-> "returned"]
          ELSE /\ lastCall' = [op |-> "createRegistration", outcome |-> "threw"]
               /\ UNCHANGED <<registrations, acctIds>>
    /\ UNCHANGED <<users, events, waitlist, hreqs, adminReq, otherVars, backend, orders,
                   orderItems, products, currentIds, clock, attempt, recordedFor>>

\* part_001:144-153, storage.ts:249-252: addToWaitlist(email)
AddToWaitlist ==
    /\ storageCalls < MaxStorageCalls
    /\ storageCalls' = storageCalls + 1
    /\ \E email \in WaitlistEmails :
          IF WaitlistKeyHolds(email)
          THEN /\ waitlist' = MapSet(waitlist, acctIds.waitlist,
                                     NewWaitlist(email, acctIds.waitlist))
               /\ acctIds' = [acctIds EXCEPT !.waitlist = NextId(@)]
               /\ lastCall' = [op |-> "addToWaitlist", outcome |-> "returned"]
          ELSE /\ lastCall' = [op |-> "addToWaitlist", outcome |-> "threw"]
               /\ UNCHANGED <<waitlist, acctIds>>
    /\ UNCHANGED <<users, events, registrations, hreqs, adminReq, otherVars, backend, orders,
                   orderItems, products, currentIds, clock, attempt, recordedFor>>

\* the create operations of the storage, called in any order
NextCreates ==
    \/ CreateUser
    \/ CreateEvent
    \/ CreateRegistration
    \/ AddToWaitlist
    \/ CreateProduct
    \/ CreateOrder
    \/ CreateOrderItem

\* a handler between two of its awaits
MidFlight(i) == hreqs[i].pc \notin {"received", "done"}

\* Every await of a handler on MemStorage is on a promise that is already
\* resolved, so its continuations run as microtasks, before the callback of
\* another request: a handler runs from its first statement to its response
\* without a step of another one in between.  On DatabaseStorage each await is
\* a query, and handlers take turns at every one.
HandlerMayStart == backend = "mem" => \A j \in 1..Len(hreqs) : ~MidFlight(j)

Answer(i, status, message) ==
    hreqs' = [hreqs EXCEPT ![i].pc = "done", ![i].status = status, ![i].message = message]

Goto(i, pc) == hreqs' = [hreqs EXCEPT ![i].pc = pc]

NewHandler(route, body) ==
    [route |-> route, body |-> body, pc |-> "received", status |-> 0, message |-> NullStr,
     created |-> 0]

\* routes.ts:294-305: POST /api/events, one storage call
PostEvents ==
    /\ HandlerMayStart
    /\ acctIds.events <= MaxEvents
    /\ \E capacity \in Capacities :
          events' = MapSet(events, acctIds.events, NewEvent(capacity, acctIds.events))
    /\ acctIds' = [acctIds EXCEPT !.events = NextId(@)]
    /\ UNCHANGED <<users, registrations, waitlist, hreqs, adminReq, otherVars, storeVars>>

\* a POST /api/users request arrives
PostUsers ==
    /\ Len(hreqs) < MaxHandlers
    /\ \E body \in InsertUsers \cup {BadUser} : hreqs' = Append(hreqs, NewHandler("users", body))
    /\ UNCHANGED <<users, events, registrations, waitlist, acctIds, adminReq, otherVars, storeVars>>

\* routes.ts:262-267: parse the body, then getUserByUsername
UsersCheckUsername(i) ==
    /\ hreqs[i].route = "users" /\ hreqs[i].pc = "received"
    /\ HandlerMayStart
    /\ IF hreqs[i].body = BadUser
       THEN Answer(i, 400, "Invalid user data")
       ELSE IF UserWith("username", hreqs[i].body.username) # {}
            THEN Answer(i, 400, "Username already taken")
            ELSE Goto(i, "checkEmail")
    /\ UNCHANGED <<users, events, registrations, waitlist, acctIds, adminReq, otherVars, storeVars>>

\* routes.ts:269-272: getUserByEmail
UsersCheckEmail(i) ==
    /\ hreqs[i].route = "users" /\ hreqs[i].pc = "checkEmail"
    /\ IF UserWith("email", hreqs[i].body.email) # {}
       THEN Answer(i, 400, "Email already registered")
       ELSE Goto(i, "create")
    /\ UNCHANGED <<users, events, registrations, waitlist, acctIds, adminReq, otherVars, storeVars>>

\* routes.ts:274-281: createUser and the response
UsersCreate(i) ==
    /\ hreqs[i].route = "users" /\ hreqs[i].pc = "create"
    /\ IF UserKeysHold(hreqs[i].body)
       THEN /\ users' = MapSet(users, acctIds.users, NewUser(hreqs[i].body, acctIds.users))
            /\ acctIds' = [acctIds EXCEPT !.users = NextId(@)]
            /\ hreqs' = [hreqs EXCEPT ![i].pc = "done", ![i].status = 201,
                                      ![i].created = acctIds.users]
       ELSE /\ Answer(i, 500, "Failed to create user")
            /\ UNCHANGED <<users, acctIds>>
    /\ UNCHANGED <<events, registrations, waitlist, adminReq, otherVars, storeVars>>

\* a POST /api/registrations request arrives
PostRegistrations ==
    /\ Len(hreqs) < MaxHandlers
    /\ \E body \in InsertRegistrations :
          hreqs' = Append(hreqs, NewHandler("registrations", body))
    /\ UNCHANGED <<users, events, registrations, waitlist, acctIds, adminReq, otherVars, storeVars>>

\* routes.ts:310-315: parse the body, then getEvent
RegistrationsGetEvent(i) ==
    /\ hreqs[i].route = "registrations" /\ hreqs[i].pc = "received"
    /\ HandlerMayStart
    /\ IF hreqs[i].body.eventId \notin DOMAIN events
       THEN Answer(i, 404, "Event not found")
       ELSE Goto(i, "readRegistrations")
    /\ UNCHANGED <<users, events, registrations, waitlist, acctIds, adminReq, otherVars, storeVars>>

\* routes.ts:318: registrations.length >= event.capacity
AtFullCapacity(count, capacity) == count >= capacity

\* routes.ts:317-320: getEventRegistrations and the capacity test
RegistrationsCheckCapacity(i) ==
    /\ hreqs[i].route = "registrations" /\ hreqs[i].pc = "readRegistrations"
    /\ IF AtFullCapacity(Cardinality(GetEventRegistrations(hreqs[i].body.eventId)),
                         events[hreqs[i].body.eventId].capacity)
       THEN Answer(i, 400, "Event is at full capacity")
       ELSE Goto(i, "create")
    /\ UNCHANGED <<users, events, registrations, waitlist, acctIds, adminReq, otherVars, storeVars>>

\* routes.ts:322-329: createRegistration and the response
RegistrationsCreate(i) ==
    /\ hreqs[i].route = "registrations" /\ hreqs[i].pc = "create"
    /\ IF RegistrationKeysHold(hreqs[i].body)
       THEN /\ registrations' = MapSet(registrations, acctIds.registrations,
                                       NewRegistration(hreqs[i].body, acctIds.registrations))
            /\ acctIds' = [acctIds EXCEPT !.registrations = NextId(@)]
            /\ hreqs' = [hreqs EXCEPT ![i].pc = "done", ![i].status = 201,
                                      ![i].created = acctIds.registrations]
       ELSE /\ Answer(i, 500, "Failed to create registration")
            /\ UNCHANGED <<registrations, acctIds>>
    /\ UNCHANGED <<users, events, waitlist, adminReq, otherVars, storeVars>>

NextAccounts ==
    \/ PostEvents
    \/ PostUsers
    \/ PostRegistrations
    \/ \E i \in 1..Len(hreqs) : UsersCheckUsername(i)
    \/ \E i \in 1..Len(hreqs) : UsersCheckEmail(i)
    \/ \E i \in 1..Len(hreqs) : UsersCreate(i)
    \/ \E i \in 1..Len(hreqs) : RegistrationsGetEvent(i)
    \/ \E i \in 1..Len(hreqs) : RegistrationsCheckCapacity(i)
    \/ \E i \in 1..Len(hreqs) : RegistrationsCreate(i)

\* POST /api/users alone
NextUsers ==
    \/ PostUsers
    \/ \E i \in 1..Len(hreqs) : UsersCheckUsername(i)
    \/ \E i \in 1..Len(hreqs) : UsersCheckEmail(i)
    \/ \E i \in 1..Len(hreqs) : UsersCreate(i)

(***************************************************************************)
(* The admin routes                                                        *)
(***************************************************************************)
AdminRoutes == {"GET /api/users", "GET /api/orders", "POST /api/products"}

\* storage.ts:326-333: updateUserRole(userId, isAdmin), of DatabaseStorage
\* only; no route calls it, an operator does
UpdateUserRole ==
    /\ backend = "db"
    /\ \E u \in DOMAIN users, isAdmin \in BOOLEAN :
          /\ users[u].isAdmin # isAdmin
          /\ users' = [users EXCEPT ![u].isAdmin = isAdmin]
    /\ UNCHANGED <<events, registrations, waitlist, acctIds, hreqs, adminReq, otherVars, storeVars>>

\* a request to an admin route arrives; its session carries no userId (0), the
\* id of a stored user, or an id the store does not hold
AdminRequest ==
    /\ adminReq.stage \in {"none", "done"}
    /\ \E route \in AdminRoutes, sid \in 0..acctIds.users :
          adminReq' = [route |-> route, sid |-> sid, stage |-> "received", status |-> 0,
                       calls |-> <<>>, changed |-> FALSE]
    /\ UNCHANGED <<users, events, registrations, waitlist, acctIds, hreqs, otherVars, storeVars>>

\* a guard that lets every stored user through
AdminAllowed_AnyUser(sid) == sid \in DOMAIN users

\* routes.ts:195-196: getUser(req.session.userId), then user?.isAdmin
AdminAllowed(sid) == sid \in DOMAIN users /\ users[sid].isAdmin

\* routes.ts:190-201: requireAdmin
RequireAdmin ==
    /\ adminReq.stage = "received"
    /\ IF adminReq.sid = 0
       THEN adminReq' = [adminReq EXCEPT !.stage = "done", !.status = 401]
       ELSE IF AdminAllowed(adminReq.sid)
            THEN adminReq' = [adminReq EXCEPT !.stage = "admitted", !.calls = <<"getUser">>]
            ELSE adminReq' = [adminReq EXCEPT !.stage = "done", !.status = 403,
                                              !.calls = <<"getUser">>]
    /\ UNCHANGED <<users, events, registrations, waitlist, acctIds, hreqs, otherVars, storeVars>>

\* routes.ts:241-257, 353-364: the handler behind requireAdmin. POST
\* /api/products answers 400 to a body insertProductSchema rejects and
\* otherwise stores the product.
AdminHandler ==
    /\ adminReq.stage = "admitted"
    /\ \/ /\ adminReq.route = "GET /api/users"
          /\ adminReq' = [adminReq EXCEPT !.stage = "done", !.status = 200,
                                          !.calls = Append(@, "getAllUsers")]
          /\ UNCHANGED <<products, currentIds, storageCalls>>
       \/ /\ adminReq.route = "GET /api/orders"
          /\ adminReq' = [adminReq EXCEPT !.stage = "done", !.status = 200,
                                          !.calls = Append(@, "getAllOrders")]
          /\ UNCHANGED <<products, currentIds, storageCalls>>
       \/ /\ adminReq.route = "POST /api/products"
          /\ adminReq' = [adminReq EXCEPT !.stage = "done", !.status = 400]
          /\ UNCHANGED <<products, currentIds, storageCalls>>
       \/ /\ adminReq.route = "POST /api/products"
          /\ storageCalls < MaxStorageCalls
          /\ storageCalls' = storageCalls + 1
          /\ \E product \in InsertProducts :
                products' = MapSet(products, currentIds.products,
                                   NewProduct(product, currentIds.products))
          /\ currentIds' = [currentIds EXCEPT !.products = NextId(@)]
          /\ adminReq' = [adminReq EXCEPT !.stage = "done", !.status = 201,
                                          !.calls = Append(@, "createProduct"),
                                          !.changed = TRUE]
    /\ UNCHANGED <<users, events, registrations, waitlist, acctIds, hreqs, otherVars, backend,
                   orders, orderItems, clock, lastCall, attempt, recordedFor>>

NextAdmin ==
    \/ CreateUser
    \/ UpdateUserRole
    \/ AdminRequest
    \/ RequireAdmin
    \/ AdminHandler

(***************************************************************************)
(* Properties of validateAddress                                           *)
(***************************************************************************)
vaCalled == vaResult.kind # "none"

\* the external calls of the last invocation that were made and failed
vaGeocodeFailed == vaCall.geo.kind = "throw"
vaGeocodeEmpty == vaCall.geo.kind = "ok" /\ vaCall.geo.n = 0
vaGeocodeFound == vaCall.geo.kind = "ok" /\ vaCall.geo.n > 0
vaCreateFailed == vaGeocodeFound /\ vaCall.create.kind = "throw"
vaVerifyFailed == vaGeocodeFound /\ vaCall.create.kind = "ok" /\ vaCall.verify.kind = "throw"
vaAnyCallFailed == vaGeocodeFailed \/ vaCreateFailed \/ vaVerifyFailed
vaCarrierSucceeded == vaGeocodeFound /\ vaCall.create.kind = "ok" /\ vaCall.verify.kind = "ok"

CalledCarrier(calls) ==
    \E i \in 1..Len(calls) : calls[i] \in {"Address.create", "verify"}

\* C6: when the geocoder returns zero candidates, validateAddress returns
\* isValid = false with the single message "Address could not be found", and
\* neither Address.create nor verify is called during that invocation.
C6_NotFoundSkipsCarrier ==
    (vaCalled /\ vaGeocodeEmpty) =>
        /\ vaResult.kind = "return"
        /\ vaResult.value.isValid = FALSE
        /\ vaResult.value.messages = <<"Address could not be found">>
        /\ ~CalledCarrier(vaResult.calls)

\* zero candidates while the carrier would have accepted the address
C6_Witness ==
    /\ vaCalled /\ vaGeocodeEmpty
    /\ vaCall.create.kind = "ok" /\ vaCall.verify.kind = "ok"
    /\ vaResult.calls = <<"geocode">>

\* C7: validateAddress never throws: every invocation returns a
\* ValidatedAddress, and when the geocoder, Address.create or verify fails the
\* returned value has isValid = false and a non-empty messages list.
C7_NeverThrows ==
    vaCalled =>
        /\ vaResult.kind = "return"
        /\ vaResult.value.address = vaCall.address
        /\ vaAnyCallFailed =>
              /\ vaResult.value.isValid = FALSE
              /\ Len(vaResult.value.messages) > 0

\* verify() raised an error that carries no message
C7_Witness ==
    /\ vaCalled /\ vaVerifyFailed /\ vaCall.verify.message = ""
    /\ vaResult.kind = "return"
    /\ vaResult.value.messages = <<"Address validation failed">>

\* C8: when the geocoder finds a candidate and carrier verification succeeds,
\* validateAddress returns isValid = true, normalizedAddress holds the carrier's
\* street, city, state, postal code, country and phone with the first and last
\* name of the input, and messages are the carrier's delivery details, or the
\* empty list when the carrier supplies none.
C8_NormalizedOnSuccess ==
    (vaCalled /\ vaCarrierSucceeded) =>
        LET in == vaCall.address
            ep == vaCall.create.obj
            out == vaResult.value
        IN  /\ vaResult.kind = "return"
            /\ out.isValid = TRUE
            /\ out.normalizedAddress.firstName = in.firstName
            /\ out.normalizedAddress.lastName = in.lastName
            /\ out.normalizedAddress.address1 = ep.street1
            /\ out.normalizedAddress.address2 = (IF ep.street2 = NullStr THEN "" ELSE ep.street2)
            /\ out.normalizedAddress.city = ep.city
            /\ out.normalizedAddress.state = ep.state
            /\ out.normalizedAddress.postalCode = ep.zip
            /\ out.normalizedAddress.country = ep.country
            /\ out.normalizedAddress.phone = ep.phone
            /\ out.messages = (IF ep.hasDetails THEN ep.details ELSE <<>>)

\* a verified address whose city differs from the one typed, with an advisory
C8_Witness ==
    /\ vaCalled /\ vaCarrierSucceeded
    /\ vaCall.create.obj.city # vaCall.address.city
    /\ vaResult.value.isValid
    /\ Len(vaResult.value.messages) > 0

(***************************************************************************)
(* Properties of the payment route and of the checkout page                *)
(***************************************************************************)
Answered(i) == piReqs[i].stage # "sent"
PositiveAmount(i) == piReqs[i].amount.has /\ piReqs[i].amount.milli > 0

\* the payer can press Pay and handleSubmit will call stripe.confirmPayment
CanConfirm == CanSubmit /\ SubmitGuard

\* C1: in every state in which the payer can confirm payment, the payment
\* intent behind the presented client secret is for the cart subtotal plus the
\* selected shipping rate.
C1_ChargesCurrentTotal ==
    CanConfirm =>
        intents[clientSecret] = NearestCent(cart.total + selectedRate[1].rate)

CheckoutRequests == {i \in 1..Len(piReqs) : piReqs[i].from = "checkout"}

\* C2: once the most recently issued create-payment-intent request of the page
\* has been answered with a token and the answer has arrived, the client secret
\* presented is that token.
C2_LatestTokenPresented ==
    \A j \in CheckoutRequests :
        ( /\ page = "checkout"
          /\ \A i \in CheckoutRequests : i <= j
          /\ piReqs[j].stage = "delivered"
          /\ piReqs[j].status = 200 )
        => clientSecret = piReqs[j].secret

\* part_002:266, 281  total + (selectedRate?.rate || 0): the total the order
\* summary and the Pay button show
ComputeTotal(total, rate) ==
    total + (IF rate = <<>> \/ rate[1].rate = 0 \/ rate[1].rate = NaN THEN 0 ELSE rate[1].rate)

\* C17: a payment intent is created only once a shipping rate has been quoted
\* and selected, and payment is confirmed only once an address has been
\* validated and a rate selected.
C17_StepsInOrder ==
    [][ /\ (formKind = "shipping" /\ Len(intents') > Len(intents)) => selectedRate # <<>>
        /\ (formKind = "shipping" /\ lastConfirm' # lastConfirm)
              => (shippingAddress # <<>> /\ selectedRate # <<>>)
      ]_vars

\* C20: the total shown is the cart subtotal plus the selected rate, or the
\* subtotal alone when no rate is selected, and a confirmed payment is for the
\* total that was shown.
C20_TotalShownAndCharged ==
    /\ FormRendered =>
          ComputeTotal(cart.total, selectedRate) =
             IF selectedRate = <<>> THEN cart.total ELSE cart.total + selectedRate[1].rate
    /\ lastConfirm # <<>> =>
          LET c == lastConfirm[1]
          IN  intents[c.secret] = NearestCent(ComputeTotal(c.subtotal, <<[rate |-> c.rate]>>))

\* C9 as stated: a request with a missing, zero or negative amount is answered
\* 400 and nothing is submitted to the processor; every request with amount > 0
\* creates exactly one payment intent and is answered with its client secret.
C9_PositiveAlwaysCreates ==
    /\ \A i \in 1..Len(piReqs) :
          Answered(i) =>
             IF PositiveAmount(i)
             THEN /\ piReqs[i].status = 200
                  /\ piReqs[i].secret \in 1..Len(intents)
             ELSE piReqs[i].status = 400 /\ piReqs[i].secret = 0
    /\ Len(intents) = Cardinality({i \in 1..Len(piReqs) : Answered(i) /\ PositiveAmount(i)})

\* C9, amended: a request with a missing, zero or negative amount is answered
\* 400 and nothing is submitted to the processor; for every amount > 0 exactly
\* one create call is submitted, for Math.round(amount * 100); when the processor
\* accepts it exactly one new intent exists for the request and its client
\* secret is returned with 200, and when the processor fails the answer is 500
\* without a client secret and no intent is created.
C9_AmountGuard ==
    /\ \A i \in 1..Len(piReqs) :
          Answered(i) =>
             IF PositiveAmount(i)
             THEN \/ /\ piReqs[i].status = 200
                     /\ piReqs[i].secret \in 1..Len(intents)
                     /\ intents[piReqs[i].secret] = ToCents(piReqs[i].amount.milli)
                     /\ \A j \in 1..Len(piReqs) :
                           (j # i /\ Answered(j)) => piReqs[j].secret # piReqs[i].secret
                  \/ /\ piReqs[i].status = 500
                     /\ piReqs[i].secret = 0
             ELSE piReqs[i].status = 400 /\ piReqs[i].secret = 0
    /\ Len(stripeCalls) = Cardinality({i \in 1..Len(piReqs) : Answered(i) /\ PositiveAmount(i)})
    /\ Len(intents) = Cardinality({i \in 1..Len(piReqs) : Answered(i) /\ piReqs[i].status = 200})
    /\ \A k \in 1..Len(stripeCalls) :
          \E i \in 1..Len(piReqs) :
             Answered(i) /\ PositiveAmount(i) /\ stripeCalls[k] = ToCents(piReqs[i].amount.milli)

\* a negative amount refused and a positive amount turned into an intent
C9_Witness ==
    \E i, j \in 1..Len(piReqs) :
        /\ piReqs[i].amount = Amount(-5000) /\ piReqs[i].status = 400
        /\ piReqs[j].amount = Amount(57250) /\ piReqs[j].status = 200
        /\ intents = <<5725>>
        /\ stripeCalls = <<5725>>

\* C10: the amount submitted to the processor is the requested amount in
\* cents rounded to the nearest cent, halves up (1.005 -> 101).
C10_RoundsToNearestCent ==
    rdCents # -1 => rdCents = NearestCent(rdAmount)

(***************************************************************************)
(* Properties of the shipping endpoints                                    *)
(***************************************************************************)
\* the aggregator call of the last calculate-rates request was made and failed
RatesCallFailed ==
    /\ shipReq.endpoint = "calculate-rates"
    /\ SchemaAccepts(shipReq.fromAddress) /\ SchemaAccepts(shipReq.toAddress)
    /\ shipReq.parcelDetails.has
    /\ shipReq.shipment.kind = "throw"

\* C11: when the aggregator call fails, getShippingRates fails as a whole
\* (it throws, returning no list of rates) and the calculate-rates endpoint
\* answers 500 with the message "Failed to calculate shipping rates".
C11_RatesFailAsAWhole ==
    RatesCallFailed =>
        /\ GetShippingRates(shipReq.fromAddress, shipReq.toAddress,
                            shipReq.parcelDetails, shipReq.shipment).kind = "throw"
        /\ shipRes.status = 500
        /\ shipRes.message = "Failed to calculate shipping rates"
        /\ "json" \notin DOMAIN shipRes

\* a failed aggregator call answered on the endpoint
C11_Witness ==
    /\ RatesCallFailed
    /\ shipReq.shipment.message = "ECONNRESET"
    /\ shipRes.status = 500
    /\ shipRes.calls = <<"Shipment.create">>

\* parcelDetails is an object with its four numbers (shipping.ts:94-99)
ParcelValid(parcel) ==
    parcel.has /\ parcel.weight # 0 /\ parcel.length # 0 /\ parcel.width # 0 /\ parcel.height # 0

\* the body of the last request violates the schema of its endpoint: the
\* ShippingAddress, or fromAddress, toAddress or parcelDetails

SchemaViolated ==
    \/ shipReq.endpoint = "validate-address" /\ ~SchemaAccepts(shipReq.body)
    \/ /\ shipReq.endpoint = "calculate-rates"
       /\ \/ ~SchemaAccepts(shipReq.fromAddress)
          \/ ~SchemaAccepts(shipReq.toAddress)
          \/ ~ParcelValid(shipReq.parcelDetails)

\* C12: a request body that violates the schema is answered 400 and no external
\* service is called for it.
C12_SchemaViolation400 ==
    SchemaViolated => shipRes.status = 400 /\ shipRes.calls = <<>>

\* the last request with the text of every raised error replaced by m
WithText(outcome, m) ==
    IF outcome.kind = "throw" THEN [outcome EXCEPT !.message = m] ELSE outcome

ResponseWithText(m) ==
    IF shipReq.endpoint = "validate-address"
    THEN ValidateAddressRoute(shipReq.body, WithText(shipReq.geo, m),
                              WithText(shipReq.create, m), WithText(shipReq.verify, m))
    ELSE CalculateRatesRoute(shipReq.fromAddress, shipReq.toAddress, shipReq.parcelDetails,
                             WithText(shipReq.shipment, m))

\* C13: the response to a request does not depend on the text of the errors
\* the external services raised: the same request with any other error text is
\* answered identically.
C13_NoExceptionText ==
    shipReq.endpoint # "none" => \A m \in ErrMessages : ResponseWithText(m) = shipRes

\* the number, in thousandths, each rate string of CarrierRates denotes
RateNumber(option) ==
    IF option.service = "Priority" THEN 7250
    ELSE IF option.service = "Ground" THEN 12000
    ELSE 4500

\* the last request was a calculate-rates request the aggregator answered
RatesQuoted ==
    /\ shipReq.endpoint = "calculate-rates"
    /\ shipRes.status = 200

\* C21: getShippingRates returns one quote per rate option of the aggregator,
\* in the aggregator's order, each with the option's carrier and service, its
\* rate as a number, its delivery days (0 when omitted) and trackingAvailable
\* true.
C21_OneQuotePerOption ==
    RatesQuoted =>
        LET options == shipReq.shipment.rates
            quotes == shipRes.json
        IN  /\ Len(quotes) = Len(options)
            /\ \A i \in 1..Len(options) :
                  /\ quotes[i].carrier = options[i].carrier
                  /\ quotes[i].service = options[i].service
                  /\ quotes[i].rate = RateNumber(options[i])
                  /\ quotes[i].estimatedDays =
                        (IF options[i].delivery_days = <<>> THEN 0 ELSE options[i].delivery_days[1])
                  /\ quotes[i].trackingAvailable = TRUE

\* two options quoted, the second without delivery days
C21_Witness ==
    /\ RatesQuoted
    /\ Len(shipRes.json) = 2
    /\ shipRes.json[1].service = "Priority" /\ shipRes.json[1].estimatedDays = 3
    /\ shipRes.json[2].service = "Ground" /\ shipRes.json[2].estimatedDays = 0
    /\ shipRes.json[2].rate = 12000

(***************************************************************************)
(* MemStorage against DatabaseStorage                                      *)
(***************************************************************************)
\* this step is the call updateOrderStatus(id, status)
UpdateOrderStatusCalled(id, status) ==
    /\ storageCalls' = storageCalls + 1
    /\ lastCall'.op = "updateOrderStatus"
    /\ IF id \in DOMAIN orders
       THEN orders' = MapSet(orders, id, UpdatedOrderIn(backend, orders[id], status))
       ELSE orders' = orders /\ lastCall'.outcome = NotFoundOutcome(backend)

\* this step is the call updateProductStock(id, quantity)
UpdateProductStockCalled(id, quantity) ==
    /\ storageCalls' = storageCalls + 1
    /\ lastCall'.op = "updateProductStock"
    /\ IF id \in DOMAIN products
       THEN products' = MapSet(products, id, UpdatedProduct(products[id], quantity))
       ELSE products' = products /\ lastCall'.outcome = NotFoundOutcome(backend)

\* C24: MemStorage and DatabaseStorage are interchangeable: whenever one of
\* them runs updateOrderStatus or updateProductStock, the other one, run on
\* the same store with the same arguments, ends the call the same way (returns
\* or fails alike) and stores the same row, updatedAt included.
C24_BackendsInterchangeable ==
    [][ /\ \A id \in 1..currentIds.orders, status \in Statuses :
              UpdateOrderStatusCalled(id, status) =>
                 IF id \in DOMAIN orders
                 THEN UpdatedOrderIn("mem", orders[id], status)
                         = UpdatedOrderIn("db", orders[id], status)
                 ELSE NotFoundOutcome("mem") = NotFoundOutcome("db")
        /\ \A id \in 1..currentIds.products, quantity \in StockQuantities :
              UpdateProductStockCalled(id, quantity) =>
                 (id \notin DOMAIN products => NotFoundOutcome("mem") = NotFoundOutcome("db"))
      ]_vars

\* the part of C24 about the stored row alone (calls on ids the store holds);
\* it fails as well: MemStorage stamps updatedAt, DatabaseStorage does not
StoredRowsAgreeOnUpdate ==
    [][ \A id \in DOMAIN orders, status \in Statuses :
           UpdateOrderStatusCalled(id, status) =>
              UpdatedOrderIn("mem", orders[id], status) = UpdatedOrderIn("db", orders[id], status)
      ]_vars

(***************************************************************************)
(* Properties of the user and registration routes                          *)
(***************************************************************************)
\* C25: whatever the interleaving of concurrent POST /api/registrations
\* requests, the number of registrations stored for an event never exceeds the
\* event's capacity.
C25_CapacityNeverExceeded ==
    \A e \in DOMAIN events :
        Cardinality({r \in DOMAIN registrations : registrations[r].eventId = e})
            <= events[e].capacity

\* the same on MemStorage alone, where a handler is not interleaved with another
CapacityKeptOnMemStorage == backend = "mem" => C25_CapacityNeverExceeded

NoDuplicateUsers ==
    \A u1 \in DOMAIN users, u2 \in DOMAIN users :
        u1 # u2 => /\ users[u1].username # users[u2].username
                   /\ users[u1].email # users[u2].email

\* the username or the email of the body is stored
AlreadyStored(body) ==
    \E u \in DOMAIN users : users[u].username = body.username \/ users[u].email = body.email

\* handler i answers in this step
Answers(i) == hreqs[i].pc # "done" /\ hreqs'[i].pc = "done"

SessionOfAdmin == adminReq.sid \in DOMAIN users /\ users[adminReq.sid].isAdmin

\* the data the storage holds
StoreData == <<users, events, registrations, waitlist, products, orders, orderItems>>

\* this step ends requireAdmin
GuardDecides == adminReq.stage = "received" /\ adminReq'.stage # "received"

\* C27: the handler of an admin route runs only for a request that
\* requireAdmin let through, which it does only when the session's userId is
\* that of a stored user with isAdmin = true; a request without a session
\* userId gets 401, one of a non-admin or unknown user gets 403, and for both
\* the store is read for the user lookup at most and is not modified.
C27_AdminGuard ==
    /\ [](adminReq.status \in {401, 403} =>
             /\ adminReq.calls \in {<<>>, <<"getUser">>}
             /\ ~adminReq.changed
             /\ adminReq.stage = "done")
    /\ [][ /\ (GuardDecides /\ adminReq'.stage = "admitted") => SessionOfAdmin
           /\ (GuardDecides /\ adminReq.sid = 0) =>
                 (adminReq'.status = 401 /\ adminReq'.calls = <<>> /\ StoreData' = StoreData)
           /\ (GuardDecides /\ adminReq.sid # 0 /\ ~SessionOfAdmin) =>
                 (adminReq'.status = 403 /\ adminReq'.calls = <<"getUser">>
                     /\ StoreData' = StoreData)
           /\ (adminReq'.calls # adminReq.calls /\ adminReq'.calls # <<>>
                  /\ adminReq'.calls # <<"getUser">>) => adminReq.stage = "admitted"
           /\ (adminReq'.changed /\ ~adminReq.changed) => adminReq.stage = "admitted"
         ]_vars

\* while another user is an admin, a stored non-admin user posts a product:
\* 403, and no product is stored
C27_Witness ==
    /\ adminReq.route = "POST /api/products"
    /\ adminReq.status = 403
    /\ adminReq.sid \in DOMAIN users
    /\ \E u \in DOMAIN users : users[u].isAdmin
    /\ products = <<>>

(***************************************************************************)
(* Ids of MemStorage                                                       *)
(***************************************************************************)
\* the ids handed out so far are 1 .. next - 1, each the key of its record
IdsInStep(map, next) ==
    /\ DOMAIN map = 1..(next - 1)
    /\ \A k \in DOMAIN map : map[k].id = k

\* a step that creates at most one record, under the id next, and leaves the
\* records stored before as they were
CreatesFreshId(map, mapAfter, next, nextAfter) ==
    /\ \A k \in DOMAIN map : k \in DOMAIN mapAfter /\ mapAfter[k] = map[k]
    /\ \/ DOMAIN mapAfter = DOMAIN map /\ nextAfter = next
       \/ DOMAIN mapAfter = DOMAIN map \cup {next} /\ nextAfter = next + 1 /\ next \notin DOMAIN map

\* C30: in MemStorage every create assigns an id never assigned before in its
\* collection: ids start at 1 and grow by 1 per create, the map key is the
\* record's id, and no create overwrites a stored record, in any order of calls.
C30_MemIdsFresh ==
    /\ [](backend = "mem" =>
             /\ IdsInStep(users, acctIds.users)
             /\ IdsInStep(events, acctIds.events)
             /\ IdsInStep(registrations, acctIds.registrations)
             /\ IdsInStep(waitlist, acctIds.waitlist)
             /\ IdsInStep(products, currentIds.products)
             /\ IdsInStep(orders, currentIds.orders)
             /\ IdsInStep(orderItems, currentIds.orderItems))
    /\ [][ backend = "mem" =>
             /\ CreatesFreshId(users, users', acctIds.users, acctIds'.users)
             /\ CreatesFreshId(events, events', acctIds.events, acctIds'.events)
             /\ CreatesFreshId(registrations, registrations',
                               acctIds.registrations, acctIds'.registrations)
             /\ CreatesFreshId(waitlist, waitlist', acctIds.waitlist, acctIds'.waitlist)
             /\ CreatesFreshId(products, products', currentIds.products, currentIds'.products)
             /\ CreatesFreshId(orders, orders', currentIds.orders, currentIds'.orders)
             /\ CreatesFreshId(orderItems, orderItems',
                               currentIds.orderItems, currentIds'.orderItems)
         ]_vars

\* two users, an order and its first item created on MemStorage, in turn
C30_Witness ==
    /\ backend = "mem"
    /\ DOMAIN users = {1, 2} /\ users[1] # users[2] /\ acctIds.users = 3
    /\ DOMAIN orders = {1} /\ currentIds.orders = 2
    /\ DOMAIN orderItems = {1} /\ currentIds.orderItems = 2

(***************************************************************************)
(* Properties of the checkout form                                         *)
(***************************************************************************)
\* the shopper clicks one of the listed rates (part_002:178)
UserPicksRate ==
    /\ ratesReq' = ratesReq
    /\ shippingRates' = shippingRates
    /\ \E i \in 1..Len(shippingRates) : selectedRate' = <<shippingRates[i]>>

\* a quote arrives with at least one rate
QuoteArrivesNonEmpty == ratesReq = "pending" /\ ratesReq' = "done" /\ shippingRates' # <<>>

\* C22: when a rate quote returns a non-empty list the selected rate becomes
\* the first element of that list, and it changes afterwards only when the
\* shopper picks a listed rate; when the list is empty or the quote fails, no
\* rate is selected.
C22_FirstRateIsDefault ==
    /\ []((ratesReq = "failed" \/ (ratesReq = "done" /\ shippingRates = <<>>))
             => selectedRate = <<>>)
    /\ [][ /\ QuoteArrivesNonEmpty => selectedRate' = <<shippingRates'[1]>>
           /\ (selectedRate' # selectedRate) => (QuoteArrivesNonEmpty \/ UserPicksRate)
         ]_vars

\* a quote of two different rates has arrived and the first one is selected
C22_Witness ==
    /\ ratesReq = "done"
    /\ Len(shippingRates) = 2
    /\ shippingRates[1] # shippingRates[2]
    /\ selectedRate = <<shippingRates[1]>>

\* part_002:159-164: ShippingAddressForm, the only control that requests a
\* rate quote, is rendered while no shipping address is set
AddressFormRendered == formKind = "shipping" /\ FormRendered /\ shippingAddress = <<>>

\* C23: after a calculate-rates request has failed the shopper can still ask
\* for a new quote: the address form, which issues the request, is on screen.
C23_RetryAfterFailure == ratesReq = "failed" => AddressFormRendered

\* a failed quote is final for the session: the address stays set and no
\* request is issued again
RatesFailureIsFinal ==
    [][ratesReq = "failed" => (ratesReq' = "failed" /\ shippingAddress' = shippingAddress)]_vars

\* C28: the cart is cleared only on the step in which confirmPayment returns
\* without an error; an early return of the submit, an error returned by
\* confirmPayment and an exception leave the cart as it was.
C28_CartClearedOnlyOnSuccess ==
    [][ /\ (cart' = EmptyCart /\ cart # EmptyCart)
              => (confirm = "pending" /\ confirm' = "confirmed")
        /\ (confirm = "pending" /\ confirm' \in {"error", "throw"}) => cart' = cart
        /\ (captcha = "pending" /\ captcha' = "idle") => cart' = cart
      ]_vars

\* a payment attempt failed and the cart still holds its items
C28_Witness == confirm \in {"error", "throw"} /\ cart \in CartStates

\* the submit handler is suspended at one of its awaits
SubmitInFlight == captcha = "pending" \/ confirm = "pending"

\* C29: every submit that sets isProcessing eventually resets it, whatever the
\* outcome, provided the external call returns; isProcessing is never true
\* when no submit handler is running.
C29_ProcessingEventuallyReset ==
    /\ [](isProcessing => SubmitInFlight)
    /\ (isProcessing ~> ~isProcessing)

\* a submit has ended in an error or an exception and isProcessing is false
C29_Witness == confirm \in {"error", "throw"} /\ ~isProcessing

(***************************************************************************)
(* Properties of the order storage                                         *)
(***************************************************************************)
\* the changes of Order.status the state machine allows
AllowedTransitions ==
    { <<"pending", "paid">>, <<"paid", "shipped">>, <<"shipped", "delivered">>,
      <<"pending", "cancelled">>, <<"paid", "cancelled">> }

\* the stored line items of an order
ItemsOf(orderId) == {i \in DOMAIN orderItems : orderItems[i].orderId = orderId}

\* C3: recording an order is all-or-nothing: when a line-item write of an
\* attempt has failed, the store holds neither the attempt's Order nor any of
\* its OrderItems; when all n writes succeeded it holds the Order and n items.
C3_OrderAllOrNothing ==
    /\ (attempt.status = "failed" /\ attempt.orderId # 0) =>
          /\ attempt.orderId \notin DOMAIN orders
          /\ ItemsOf(attempt.orderId) = {}
    /\ attempt.status = "done" =>
          /\ attempt.orderId \in DOMAIN orders
          /\ Cardinality(ItemsOf(attempt.orderId)) = attempt.want

\* C4: recording is idempotent per payment confirmation: whatever the number
\* of createOrder invocations made for one confirmation id, one Order at most
\* is stored for it.
C4_OneOrderPerConfirmation ==
    \A pc \in ConfirmationIds :
        Cardinality({id \in DOMAIN orders : recordedFor[id] = pc}) <= 1

\* C5: every change of a stored order's status is one of pending->paid,
\* paid->shipped, shipped->delivered, pending->cancelled, paid->cancelled; any
\* other requested change leaves the order as it was.
C5_StatusStateMachine ==
    [][\A id \in DOMAIN orders :
          (id \in DOMAIN orders' /\ orders'[id].status # orders[id].status)
          => <<orders[id].status, orders'[id].status>> \in AllowedTransitions]_vars

\* sum of price x quantity over a set of order items
RECURSIVE ItemsSubtotal(_)
ItemsSubtotal(items) ==
    IF items = {} THEN 0
    ELSE LET it == CHOOSE x \in items : TRUE
         IN  it.price * it.quantity + ItemsSubtotal(items \ {it})

\* the order id is stored with status paid now and was not before
BecomesPaid(id) ==
    /\ id \in DOMAIN orders'
    /\ orders'[id].status = "paid"
    /\ (id \notin DOMAIN orders \/ orders[id].status # "paid")

\* C14: at the moment an order's status becomes paid, its total is the sum of
\* price x quantity over its order items plus its shippingCost.
C14_PaidTotalIsSum ==
    [][\A id \in 1..MaxStorageCalls :
          BecomesPaid(id) =>
             orders'[id].total = ItemsSubtotal(GetOrderItems(id)') + orders'[id].shippingCost]_vars

\* C15: the price stored on an order item never changes once written: every
\* item getOrderItems returns is returned with the same price after any storage
\* operation.
C15_ItemPriceImmutable ==
    [][\A id \in DOMAIN orders :
          \A it \in GetOrderItems(id) :
             \E now \in GetOrderItems(id)' : now.id = it.id /\ now.price = it.price]_vars

\* an order item written at a price other than its product's, and the
\* product's stock updated since
C15_Witness ==
    /\ lastCall = [op |-> "updateProductStock", outcome |-> "returned"]
    /\ \E i \in DOMAIN orderItems :
          /\ orderItems[i].productId \in DOMAIN products
          /\ products[orderItems[i].productId].price # orderItems[i].price

\* C16: every stored product's stock is an integer >= 0.
C16_StockNeverNegative ==
    \A id \in DOMAIN products : products[id].stock >= 0

\* the storage call just made is updateOrderStatus
UpdatedStatus == storageCalls' # storageCalls /\ lastCall'.op = "updateOrderStatus"

\* C19: a stored order keeps its id, userId, total and createdAt, and a stored
\* order item stays as written, whatever storage operation is made;
\* updateOrderStatus leaves the items of every order as they were.
C19_OnlyStatusChanges ==
    [][ /\ \A id \in DOMAIN orders :
              /\ id \in DOMAIN orders'
              /\ orders'[id].id = orders[id].id
              /\ orders'[id].userId = orders[id].userId
              /\ orders'[id].total = orders[id].total
              /\ orders'[id].createdAt = orders[id].createdAt
        /\ \A i \in DOMAIN orderItems :
              i \in DOMAIN orderItems' /\ orderItems'[i] = orderItems[i]
        /\ UpdatedStatus => \A id \in DOMAIN orders : GetOrderItems(id)' = GetOrderItems(id)
      ]_vars

\* MemStorage has changed the status of an order with an item some time after
\* the order was created
C19_Witness ==
    /\ backend = "mem"
    /\ lastCall = [op |-> "updateOrderStatus", outcome |-> "returned"]
    /\ \E id \in DOMAIN orders :
          /\ orders[id].updatedAt > orders[id].createdAt
          /\ orders[id].status = "cancelled"
          /\ GetOrderItems(id) # {}

\* C18: the server serves requests only if the payment-processor key, the
\* geocoding key and the carrier-aggregator key are all set: with any of them
\* missing, module initialisation fails before a request is served.
C18_SecretsFailFast ==
    (boot = "listening" \/ served > 0) => \A key \in SecretKeys : env[key] # NullStr

\* the checkout pages are served by a server whose secrets are in place
InitBooted ==
    /\ env = [key \in SecretKeys |-> "test_key"]
    /\ boot = "listening"
    /\ served = 0

Init ==
    /\ InitShipping /\ InitBooted /\ InitRounding /\ InitServer /\ InitCheckout /\ InitStorage
    /\ InitAccounts

Next ==
    \/ NextBoot \/ NextShipping \/ NextShipRoutes \/ NextRounding \/ NextPayment \/ NextCheckout
    \/ NextStorage \/ NextCreates \/ NextAccounts \/ NextAdmin

Spec == Init /\ [][Next]_vars

\* one specification per component, the other components idle
SpecShipping == Init /\ [][NextShipping]_vars

\* the route about to convert any one of the amounts a request can carry
InitAmounts ==
    /\ InitShipping /\ InitBooted /\ InitRoundingInputs /\ InitServer /\ InitCheckout
    /\ InitStorage /\ InitAccounts

\* the server process from its start, with any environment
InitProcess ==
    /\ InitShipping /\ InitBoot /\ InitRounding /\ InitServer /\ InitCheckout /\ InitStorage
    /\ InitAccounts

SpecBoot == InitProcess /\ [][NextBoot]_vars

SpecShipRoutes == Init /\ [][NextShipRoutes]_vars

SpecRounding == InitAmounts /\ [][NextRounding]_vars

SpecPayment == Init /\ [][NextPayment]_vars

SpecCheckout == Init /\ [][NextCheckout]_vars

SpecStorage == Init /\ [][NextStorage]_vars

\* the create operations alone
SpecCreates == Init /\ [][NextCreates]_vars

\* the user, event and registration routes under concurrent requests
SpecAccounts == Init /\ [][NextAccounts]_vars

\* POST /api/users under concurrent requests
SpecUsers == Init /\ [][NextUsers]_vars

\* the admin routes, with users being created and an operator granting roles
SpecAdmin == Init /\ [][NextAdmin]_vars

\* the checkout page when every external call (reCAPTCHA, Stripe) returns
SpecCheckoutLive ==
    /\ Init
    /\ [][NextCheckout]_vars
    /\ WF_vars(RecaptchaSettles)
    /\ WF_vars(ConfirmPaymentSettles)
    /\ WF_vars(CaptchaConfirmSettles)

====
